---- MODULE Spec2Model ----
(***************************************************************************)
(* Model of the roadmap renderer (src/roadmapper/roadmap.py): the Roadmap  *)
(* aggregate, its definition operations, the layout pass draw(), and the   *)
(* interactive document assembler __save_pdf with the drawing canvas it    *)
(* writes to.                                                              *)
(***************************************************************************)
EXTENDS Integers, Sequences, FiniteSets, TLC

(***************************************************************************)
(* Bounds of the model.                                                    *)
(***************************************************************************)
MaxGroups == 2
MaxTasks == 2

(***************************************************************************)
(* Program constants.                                                      *)
(***************************************************************************)
\* Roadmap.width / Roadmap.height defaults (the parent canvas).
Width == 1200
Height == 600
\* The canvas of a nested roadmap built by create_detail_roadmap_builder
\* when neither the nested nor the root configuration gives a size.
NestedWidth == 1400
NestedHeight == 750

(***************************************************************************)
(* Names.  Identifiers and bookmark names are strings; they are modelled   *)
(* as sequences of string tokens so that concatenation and equality are    *)
(* computed and not assumed.                                               *)
(***************************************************************************)
RoadmapOverview == <<"roadmap_overview">>

Digits == <<"1", "2", "3", "4", "5", "6", "7", "8", "9">>

\* Task.identifier: assigned from the sequence number the task got when
\* it was created.
Identifier(task) == <<"task_", Digits[task.seq]>>

\* f"{task.identifier}_roadmap" with the suffix dropped.
NestedDest_NoSuffix(task) == Identifier(task)

\* f"{task.identifier}_roadmap"
NestedDest(task) == Identifier(task) \o <<"_roadmap">>

(***************************************************************************)
(* Geometry inputs.  A box is <<x, y, width, height>> in top-down pixels.  *)
(* The layout pass gives a task one box per timeline cell it covers; a     *)
(* cell the task does not reach yields a box of width 0.                   *)
(***************************************************************************)
OneBox == << <<100, 80, 200, 30>> >>
ThreeBoxes == << <<100, 120, 0, 30>>, <<100, 120, 200, 30>>, <<300, 120, 200, 30>> >>
Layouts == {OneBox, ThreeBoxes}

\* What a builder call can produce.  A Roadmap result carries its canvas
\* size and the number of detail tasks defined inside it.
NestedRoadmaps ==
    { [width |-> Width, height |-> Height, details |-> 0],
      [width |-> NestedWidth, height |-> NestedHeight, details |-> 1] }

NoRoadmap == [width |-> 0, height |-> 0, details |-> 0]

Outcomes == {"roadmap", "none", "raises", "not_roadmap", "draw_raises"}

NoError == [type |-> "none", label |-> 0]

BlankPage == [content |-> <<>>, rects |-> <<>>, links |-> <<>>, buttons |-> <<>>,
              width |-> 0, height |-> 0]

VARIABLES
    groups,           \* Roadmap.groups: sequence of groups, each a sequence of tasks
    next_seq,         \* sequence number the next created task gets
    pc,               \* "define", "ready", or the position inside __save_pdf
    output,           \* result of the last save(): "none", "raster", "document"
    error,            \* the exception the last save() raised, or NoError
    detail_tasks,     \* __save_pdf: detail_tasks
    idx,              \* __save_pdf: position of the running loop (1-based)
    nested_artifacts, \* __save_pdf: nested_artifacts, identifier -> nested roadmap
    invoked,          \* log of builder calls of the running document build
    pagesize,         \* canvas: page size in force
    pages,            \* canvas: pages already emitted
    cur,              \* canvas: page being drawn
    bookmarks,        \* canvas: bookmarkPage calls, <<name, page number>>
    outline,          \* canvas: outline entries with their parent entry
    breaks,           \* number of showPage calls made by __save_pdf
    \* One roadmap as the page routines see it (CanvasSpec).
    header,           \* Roadmap.header: NoHeader or the Header's fields
    painter,          \* Painter: title_font_size, last_drawn_y_pos
    elements,         \* geometry fields of the laid-out elements, top-down
    self_height,      \* Roadmap.height of the roadmap being drawn
    routine,          \* the page routine that ran last, "none" before any
    primitives,       \* what that routine drew, in document coordinates
    \* The tag colour tables of one Roadmap (TagSpec, ChipSpec).
    tag_palette,          \* Roadmap._tag_palette: tag -> colour
    tag_default_sequence, \* Roadmap._tag_default_sequence
    tag_auto_palette,     \* Roadmap._tag_auto_palette: tag -> colour
    styles_set,           \* number of set_tag_styles calls made so far
    resolved,             \* log of the _resolve_tag_colour calls made so far
    \* One call of draw_tag_chips (ChipSpec).
    chip,                 \* its arguments, locals, position and drawn chips
    \* One roadmap as its setters and draw() see it (LayoutSpec).
    roadmap,              \* header, title, subtitle, timeline, groups, footer,
                          \* painter, and the log of the draw() passes made
    save_call,            \* one call of Roadmap.save (SaveSpec)
    fonts,                \* the font registry and the builds using it (FontSpec)
    driver,               \* one call of a helper of roadmapper_example.py
    marker                \* the Marker and the Roadmap around it (MarkerSpec)

canvas_vars == <<pagesize, pages, cur, bookmarks, outline, breaks>>
build_vars == <<detail_tasks, idx, nested_artifacts, invoked>>
program_vars == <<groups, next_seq, pc, output, error, detail_tasks, idx,
                  nested_artifacts, invoked, pagesize, pages, cur, bookmarks,
                  outline, breaks>>
page_vars == <<header, painter, elements, self_height, routine, primitives>>

tag_vars == <<tag_palette, tag_default_sequence, tag_auto_palette, styles_set, resolved>>
chip_vars == <<chip>>
layout_vars == <<roadmap>>
extra_vars == <<save_call, fonts, driver, marker>>

\* The variables the document assembler of Spec does not touch.
aux_vars == <<page_vars, tag_vars, chip_vars, layout_vars, extra_vars>>

\* What the page routines, the tag tables, draw_tag_chips and the layout
\* leave alone.
not_page_vars == <<program_vars, tag_vars, chip_vars, layout_vars, extra_vars>>
not_tag_vars == <<program_vars, page_vars, chip_vars, layout_vars, extra_vars>>
not_chip_vars == <<program_vars, page_vars, tag_palette, tag_default_sequence,
                   styles_set, resolved, layout_vars, extra_vars>>
not_layout_vars == <<program_vars, page_vars, tag_vars, chip_vars, extra_vars>>
old_vars == <<program_vars, page_vars, tag_vars, chip_vars, layout_vars>>

vars == <<program_vars, aux_vars>>

(***************************************************************************)
(* Sequence helpers.                                                       *)
(***************************************************************************)
RECURSIVE Flatten(_)
Flatten(ss) == IF ss = <<>> THEN <<>> ELSE Head(ss) \o Flatten(Tail(ss))

RECURSIVE Reverse(_)
Reverse(s) == IF s = <<>> THEN <<>> ELSE Append(Reverse(Tail(s)), Head(s))

(***************************************************************************)
(* Roadmap: traversal.                                                     *)
(***************************************************************************)
\* Roadmap.iter_tasks walking the groups last to first.
iter_tasks_GroupsReversed == Flatten(Reverse(groups))

\* Roadmap.iter_tasks: groups in insertion order, each group's tasks in order.
iter_tasks == Flatten(groups)

IsDetail(task) == task.has_detail

\* Roadmap.__detail_tasks
DetailTasks == SelectSeq(iter_tasks, IsDetail)

TaskCount == Len(iter_tasks)

(***************************************************************************)
(* Canvas operations (the drawing backend as __save_pdf uses it).          *)
(***************************************************************************)
\* The page a bookmarkPage call lands on: the page being drawn.
CurrentPage(ps) == Len(ps) + 1

BookmarkPage(bm, name, ps) == Append(bm, [name |-> name, page |-> CurrentPage(ps)])

\* Index of the last entry at the given level, 0 if there is none.
LastAtLevel(ol, level) ==
    LET S == {i \in DOMAIN ol : ol[i].level = level}
    IN  IF S = {} THEN 0 ELSE CHOOSE i \in S : \A j \in S : j <= i

\* addOutlineEntry: the entry becomes a child of the last entry one level up.
AddOutlineEntry(ol, key, level) ==
    Append(ol, [key |-> key, level |-> level,
                parent |-> IF level = 0 THEN 0 ELSE LastAtLevel(ol, level - 1)])

\* __draw_on_canvas.to_pdf_y / rect_y: top-down y to bottom-up y.
to_pdf_y(height, y) == height - y
rect_y(height, y, h) == height - (y + h)

\* showPage: the page being drawn is emitted with the page size in force.
Emit(ps, page, size) ==
    Append(ps, [page EXCEPT !.width = size[1], !.height = size[2]])

(***************************************************************************)
(* Initial state: a Roadmap just constructed, nothing saved.               *)
(***************************************************************************)
\* Roadmap.header = None
NoHeader == [set |-> FALSE]

\* A Painter of a roadmap on which nothing has been laid out.
NewPainter == [title_font_size |-> 18, last_drawn_y_pos |-> 0]

\* The page routines have not run and have no roadmap to draw.
PageIdle ==
    /\ header = NoHeader
    /\ painter = NewPainter
    /\ elements = <<>>
    /\ self_height = Height
    /\ routine = "none"
    /\ primitives = [overview |-> <<>>, detail |-> <<>>]

\* Roadmap._tag_default_sequence as __post_init__ sets it.
DefaultSequence ==
    <<"#1F77B4", "#2CA02C", "#D62728", "#9467BD", "#FF7F0E", "#17BECF",
      "#BCBD22", "#8C564B">>

\* The tag tables of a new Roadmap.
TagIdle ==
    /\ tag_palette = [t \in {} |-> ""]
    /\ tag_default_sequence = DefaultSequence
    /\ tag_auto_palette = [t \in {} |-> ""]
    /\ styles_set = 0
    /\ resolved = <<>>

\* draw_tag_chips is not running.
NoChipCall == [pc |-> "idle"]
ChipIdle == chip = NoChipCall

\* An attribute of the Roadmap that is still None.
NotSet == [set |-> FALSE]

\* The Roadmap attributes the setters and draw() work on, after construction.
NewLayout(show_marker) ==
    [header |-> NoHeader, title |-> NotSet, subtitle |-> NotSet,
     timeline |-> NotSet, groups |-> <<>>, footer |-> NotSet,
     marker |-> show_marker, painter |-> NewPainter, edits |-> 0,
     passes |-> <<>>]

\* No setter and no draw() has run.
LayoutIdle == roadmap = NewLayout(TRUE)

\* A call that has not been made.
Idle == [pc |-> "idle"]
ExtraIdle == save_call = Idle /\ fonts = Idle /\ driver = Idle /\ marker = Idle

AuxIdle == PageIdle /\ TagIdle /\ ChipIdle /\ LayoutIdle /\ ExtraIdle

NewRoadmap ==
    /\ groups = <<>>
    /\ next_seq = 1
    /\ pc = "define"
    /\ output = "none"
    /\ error = NoError
    /\ detail_tasks = <<>>
    /\ idx = 1
    /\ nested_artifacts = <<>>
    /\ invoked = <<>>
    /\ pagesize = <<Width, Height>>
    /\ pages = <<>>
    /\ cur = BlankPage
    /\ bookmarks = <<>>
    /\ outline = <<>>
    /\ breaks = 0

Init == NewRoadmap /\ AuxIdle

(***************************************************************************)
(* Definition operations.                                                  *)
(***************************************************************************)
\* Roadmap.add_group
AddGroup ==
    /\ pc = "define"
    /\ Len(groups) < MaxGroups
    /\ groups' = Append(groups, <<>>)
    /\ UNCHANGED <<next_seq, pc, output, error>>
    /\ UNCHANGED build_vars
    /\ UNCHANGED canvas_vars
    /\ UNCHANGED aux_vars

\* Group.add_task: a plain task; its boxes are computed by the layout pass.
AddTask(g, layout) ==
    /\ pc = "define"
    /\ TaskCount < MaxTasks
    /\ groups' = [groups EXCEPT ![g] =
                    Append(@, [seq |-> next_seq, layout |-> layout, boxes |-> <<>>,
                               has_detail |-> FALSE, builder |-> FALSE])]
    /\ next_seq' = next_seq + 1
    /\ UNCHANGED <<pc, output, error>>
    /\ UNCHANGED build_vars
    /\ UNCHANGED canvas_vars
    /\ UNCHANGED aux_vars

\* Task.set_detail: the task gets detail content.
SetDetail(g, k) ==
    /\ pc = "define"
    /\ ~groups[g][k].has_detail
    /\ groups' = [groups EXCEPT ![g][k].has_detail = TRUE]
    /\ UNCHANGED <<next_seq, pc, output, error>>
    /\ UNCHANGED build_vars
    /\ UNCHANGED canvas_vars
    /\ UNCHANGED aux_vars

\* Task.set_detail_roadmap(builder): the builder is stored, not called.
SetDetailRoadmap(g, k) ==
    /\ pc = "define"
    /\ groups[g][k].has_detail
    /\ ~groups[g][k].builder
    /\ groups' = [groups EXCEPT ![g][k].builder = TRUE]
    /\ UNCHANGED <<next_seq, pc, output, error>>
    /\ UNCHANGED build_vars
    /\ UNCHANGED canvas_vars
    /\ UNCHANGED aux_vars

(***************************************************************************)
(* Layout pass and raster output.                                          *)
(***************************************************************************)
LaidOut(task) == [task EXCEPT !.boxes = task.layout]

\* Roadmap.draw: group.set_draw_position computes every task's boxes.
Draw ==
    /\ pc \in {"define", "ready"}
    /\ groups' = [g \in DOMAIN groups |->
                    [k \in DOMAIN groups[g] |-> LaidOut(groups[g][k])]]
    /\ pc' = "ready"
    /\ UNCHANGED <<next_seq, output, error>>
    /\ UNCHANGED build_vars
    /\ UNCHANGED canvas_vars
    /\ UNCHANGED aux_vars

\* Roadmap.save with a file name that does not end in ".pdf".  As in the
\* driver scripts, save() is called on a roadmap that draw() has laid out.
SaveRaster ==
    /\ pc = "ready"
    /\ output' = "raster"
    /\ error' = NoError
    /\ UNCHANGED <<groups, next_seq, pc>>
    /\ UNCHANGED build_vars
    /\ UNCHANGED canvas_vars
    /\ UNCHANGED aux_vars

(***************************************************************************)
(* Document assembler: Roadmap.__save_pdf.                                 *)
(***************************************************************************)
\* Position after one pass of a loop over detail_tasks: the next task, or
\* the phase that follows the loop.
LoopIdx == IF idx = Len(detail_tasks) THEN 1 ELSE idx + 1
LoopPc(here, after) == IF idx = Len(detail_tasks) THEN after ELSE here

\* An exception leaves __save_pdf: the canvas is dropped without save().
Abort(type, label) ==
    /\ error' = [type |-> type, label |-> label]
    /\ pc' = "ready"
    /\ UNCHANGED <<groups, next_seq, output, detail_tasks, idx, nested_artifacts>>
    /\ UNCHANGED canvas_vars
    /\ UNCHANGED aux_vars

\* Roadmap.save with a ".pdf" file name enters __save_pdf: canvas creation,
\* the overview bookmark, the root outline entry, the list of detail tasks.
SavePdfBegin ==
    /\ pc = "ready"
    /\ pagesize' = <<Width, Height>>
    /\ pages' = <<>>
    /\ cur' = BlankPage
    /\ breaks' = 0
    /\ bookmarks' = BookmarkPage(<<>>, RoadmapOverview, <<>>)
    /\ outline' = AddOutlineEntry(<<>>, RoadmapOverview, 0)
    /\ detail_tasks' = DetailTasks
    /\ nested_artifacts' = <<>>
    /\ invoked' = <<>>
    /\ idx' = 1
    /\ output' = "none"
    /\ error' = NoError
    /\ pc' = IF DetailTasks = <<>> THEN "fonts" ELSE "builders"
    /\ UNCHANGED <<groups, next_seq>>
    /\ UNCHANGED aux_vars

\* A call of a task's builder, as recorded in the log.
Call(task, result, nested) ==
    [task |-> task.seq, result |-> result, inst |-> Len(invoked) + 1,
     width |-> nested.width, height |-> nested.height, details |-> nested.details,
     draws |-> 0, pages_before |-> 0]

\* The builder loop without its call of nested_roadmap.draw().
NestedDraw_Skipped(call) == call

\* nested_roadmap.draw(): one layout pass of the Roadmap the builder
\* returned, with the number of pages the document has at that moment.
NestedDraw(call) ==
    [call EXCEPT !.draws = @ + 1,
                 !.pages_before = Len(pages) + (IF cur = BlankPage THEN 0 ELSE 1)]

\* Builder loop: the task has no builder.
BuilderSkip ==
    /\ pc = "builders"
    /\ ~detail_tasks[idx].builder
    /\ idx' = LoopIdx
    /\ pc' = LoopPc("builders", "fonts")
    /\ UNCHANGED <<groups, next_seq, output, error, detail_tasks,
                   nested_artifacts, invoked>>
    /\ UNCHANGED canvas_vars
    /\ UNCHANGED aux_vars

\* Builder loop: builder() raises.
BuilderRaises ==
    /\ pc = "builders"
    /\ detail_tasks[idx].builder
    /\ invoked' = Append(invoked, Call(detail_tasks[idx], "raises", NoRoadmap))
    /\ Abort("RuntimeError", detail_tasks[idx].seq)

\* Builder loop: builder() returns None.
BuilderReturnsNone ==
    /\ pc = "builders"
    /\ detail_tasks[idx].builder
    /\ invoked' = Append(invoked, Call(detail_tasks[idx], "none", NoRoadmap))
    /\ idx' = LoopIdx
    /\ pc' = LoopPc("builders", "fonts")
    /\ UNCHANGED <<groups, next_seq, output, error, detail_tasks, nested_artifacts>>
    /\ UNCHANGED canvas_vars
    /\ UNCHANGED aux_vars

\* Builder loop: builder() returns something that is not a Roadmap.
BuilderReturnsOther ==
    /\ pc = "builders"
    /\ detail_tasks[idx].builder
    /\ invoked' = Append(invoked, Call(detail_tasks[idx], "not_roadmap", NoRoadmap))
    /\ Abort("TypeError", 0)

\* Builder loop: builder() returns a Roadmap whose draw() raises.
NestedDrawRaises(nested) ==
    /\ pc = "builders"
    /\ detail_tasks[idx].builder
    /\ invoked' = Append(invoked, NestedDraw(Call(detail_tasks[idx], "draw_raises", nested)))
    /\ Abort("ValueError", 0)

\* Builder loop: builder() returns a Roadmap; it is laid out and stored
\* under the task's identifier.
BuilderReturnsRoadmap(nested) ==
    /\ pc = "builders"
    /\ detail_tasks[idx].builder
    /\ invoked' = Append(invoked, NestedDraw(Call(detail_tasks[idx], "roadmap", nested)))
    /\ nested_artifacts' =
         (Identifier(detail_tasks[idx]) :> NestedDraw(Call(detail_tasks[idx], "roadmap", nested)))
            @@ nested_artifacts
    /\ idx' = LoopIdx
    /\ pc' = LoopPc("builders", "fonts")
    /\ UNCHANGED <<groups, next_seq, output, error, detail_tasks>>
    /\ UNCHANGED canvas_vars
    /\ UNCHANGED aux_vars

\* Font resolution for the document.
ResolveFonts ==
    /\ pc = "fonts"
    /\ pc' = "overview"
    /\ UNCHANGED <<groups, next_seq, output, error>>
    /\ UNCHANGED build_vars
    /\ UNCHANGED canvas_vars
    /\ UNCHANGED aux_vars

\* Overview links: a box with no area gets no clickable region.
LinkableBox_And(box) == ~(box[3] <= 0 /\ box[4] <= 0)

LinkableBox(box) == ~(box[3] <= 0 \/ box[4] <= 0)

\* The clickable region of one box with the top-down y left as it is.
LinkRect_RawY(task, box) ==
    [dest |-> Identifier(task),
     rect |-> <<box[1], box[2], box[1] + box[3], box[2] + box[4]>>]

\* The clickable region of one box, in document coordinates.
LinkRect(task, box) ==
    [dest |-> Identifier(task),
     rect |-> <<box[1], Height - (box[2] + box[4]), box[1] + box[3], Height - box[2]>>]

TaskLinks(task) ==
    LET shown == SelectSeq(task.boxes, LinkableBox)
    IN  [i \in 1..Len(shown) |-> LinkRect(task, shown[i])]

OverviewLinks(tasks) == Flatten([i \in 1..Len(tasks) |-> TaskLinks(tasks[i])])

\* What one drawing routine puts on the page being drawn.
Content(kind, seq, inst, flip) ==
    [kind |-> kind, task |-> seq, inst |-> inst, flip |-> flip]

Button(text, dest) == [text |-> text, dest |-> dest]

\* __draw_on_canvas, task boxes: pdf_canvas.rect(box_x, rect_y(box_y,
\* box_height), box_width, box_height) for every box of every task.
DrawnRect(task, i) ==
    [task |-> task.seq, x |-> task.boxes[i][1],
     y |-> rect_y(Height, task.boxes[i][2], task.boxes[i][4]),
     width |-> task.boxes[i][3], height |-> task.boxes[i][4]]

TaskRects(task) == [i \in 1..Len(task.boxes) |-> DrawnRect(task, i)]

OverviewRects(tasks) == Flatten([i \in 1..Len(tasks) |-> TaskRects(tasks[i])])

\* "if detail_tasks: showPage()" with the page break dropped.
BreakAfterOverview_Never(tasks) == FALSE

\* "if detail_tasks: showPage()"
BreakAfterOverview(tasks) == tasks # <<>>

\* Overview page: the roadmap's geometry flipped with the roadmap's height,
\* one clickable region per linkable box of every detail task.
DrawOverview ==
    /\ pc = "overview"
    /\ LET page == [cur EXCEPT
                      !.content = Append(@, Content("overview", 0, 0, Height)),
                      !.rects = @ \o OverviewRects(iter_tasks),
                      !.links = @ \o OverviewLinks(detail_tasks)]
       IN  IF BreakAfterOverview(detail_tasks)
           THEN /\ pages' = Emit(pages, page, pagesize)
                /\ cur' = BlankPage
                /\ breaks' = breaks + 1
           ELSE /\ cur' = page
                /\ UNCHANGED <<pages, breaks>>
    /\ idx' = 1
    /\ pc' = IF detail_tasks = <<>> THEN "save" ELSE "detail"
    /\ UNCHANGED <<groups, next_seq, output, error, detail_tasks,
                   nested_artifacts, invoked, pagesize, bookmarks, outline>>
    /\ UNCHANGED aux_vars

\* nested_artifacts.get(task.identifier)
Lookup(artifacts, task) ==
    IF Identifier(task) \in DOMAIN artifacts
    THEN artifacts[Identifier(task)]
    ELSE Call(task, "none", NoRoadmap)

\* "if task.identifier in nested_artifacts" replaced by a test of the builder.
HasNestedButton_Builder(task, artifacts) == task.builder

\* "if task.identifier in nested_artifacts"
HasNestedButton(task, artifacts) == Identifier(task) \in DOMAIN artifacts

\* The navigation buttons of a DETAIL page.
DetailButtons(task, artifacts) ==
    <<Button("Back to overview", RoadmapOverview)>>
    \o (IF HasNestedButton(task, artifacts)
        THEN <<Button("Open detailed roadmap", NestedDest(task))>>
        ELSE <<>>)

\* "if index < len(detail_tasks) - 1" (index counted from 0) always taken.
BreakAfterDetail_Always(index, n) == TRUE

\* "if index < len(detail_tasks) - 1" (index counted from 0)
BreakAfterDetail(index, n) == index < n - 1

\* The instance outlined on the DETAIL page: 0 when the task has none.
OutlinedInst(task, artifacts) ==
    IF Identifier(task) \in DOMAIN artifacts THEN Lookup(artifacts, task).inst ELSE 0

\* One DETAIL page.
DetailPage ==
    /\ pc = "detail"
    /\ LET task == detail_tasks[idx]
           page == [cur EXCEPT
                      !.content = Append(@, Content("detail", task.seq,
                                    OutlinedInst(task, nested_artifacts), Height)),
                      !.buttons = @ \o DetailButtons(task, nested_artifacts)]
       IN  /\ pagesize' = <<Width, Height>>
           /\ bookmarks' = BookmarkPage(bookmarks, Identifier(task), pages)
           /\ outline' = AddOutlineEntry(outline, Identifier(task), 1)
           /\ IF BreakAfterDetail(idx - 1, Len(detail_tasks))
              THEN /\ pages' = Emit(pages, page, pagesize')
                   /\ cur' = BlankPage
                   /\ breaks' = breaks + 1
              ELSE /\ cur' = page
                   /\ UNCHANGED <<pages, breaks>>
    /\ idx' = LoopIdx
    /\ pc' = LoopPc("detail", "nested")
    /\ UNCHANGED <<groups, next_seq, output, error, detail_tasks,
                   nested_artifacts, invoked>>
    /\ UNCHANGED aux_vars

\* The nested page loop in reverse task order.
NestedLoopTasks_Reversed == Reverse(detail_tasks)

\* "for task in detail_tasks" of the nested page loop.
NestedLoopTasks == detail_tasks

\* The page size of a NESTED page taken from the parent roadmap.
NestedPageSize_Parent(nested) == <<Width, Height>>

\* (nested_roadmap.width, nested_roadmap.height)
NestedPageSize(nested) == <<nested.width, nested.height>>

\* The roadmap of the NESTED page obtained by calling the builder again.
NestedRoadmapFor_Rebuilt(task, artifacts) ==
    [Lookup(artifacts, task) EXCEPT !.inst = Len(invoked) + 1]

\* nested_roadmap = nested_artifacts.get(task.identifier)
NestedRoadmapFor(task, artifacts) == Lookup(artifacts, task)

\* Nested page loop: the task has no nested roadmap.
NestedSkip ==
    /\ pc = "nested"
    /\ Identifier(NestedLoopTasks[idx]) \notin DOMAIN nested_artifacts
    /\ idx' = LoopIdx
    /\ pc' = LoopPc("nested", "save")
    /\ UNCHANGED <<groups, next_seq, output, error, detail_tasks,
                   nested_artifacts, invoked>>
    /\ UNCHANGED canvas_vars
    /\ UNCHANGED aux_vars

\* One NESTED page: page break, page size, bookmark, outline entry, the
\* nested roadmap's geometry flipped with its own height, two buttons.
NestedPage ==
    /\ pc = "nested"
    /\ Identifier(NestedLoopTasks[idx]) \in DOMAIN nested_artifacts
    /\ LET task == NestedLoopTasks[idx]
           nested == NestedRoadmapFor(task, nested_artifacts)
       IN  /\ pages' = Emit(pages, cur, pagesize)
           /\ breaks' = breaks + 1
           /\ pagesize' = NestedPageSize(nested)
           /\ bookmarks' = BookmarkPage(bookmarks, NestedDest(task), pages')
           /\ outline' = AddOutlineEntry(outline, NestedDest(task), 2)
           /\ cur' = [BlankPage EXCEPT
                        !.content = <<Content("nested", task.seq, nested.inst,
                                              nested.height)>>,
                        !.buttons = <<Button("Back to detail", Identifier(task)),
                                      Button("Back to overview", RoadmapOverview)>>]
    /\ idx' = LoopIdx
    /\ pc' = LoopPc("nested", "save")
    /\ UNCHANGED <<groups, next_seq, output, error, detail_tasks,
                   nested_artifacts, invoked>>
    /\ UNCHANGED aux_vars

\* pdf_canvas.save(): a page with content is emitted, the file is written.
SaveCanvas ==
    /\ pc = "save"
    /\ pages' = IF cur = BlankPage THEN pages ELSE Emit(pages, cur, pagesize)
    /\ cur' = BlankPage
    /\ output' = "document"
    /\ pc' = "ready"
    /\ UNCHANGED <<groups, next_seq, error, pagesize, bookmarks, outline, breaks>>
    /\ UNCHANGED build_vars
    /\ UNCHANGED aux_vars

Next ==
    \/ AddGroup
    \/ \E g \in DOMAIN groups, layout \in Layouts : AddTask(g, layout)
    \/ \E g \in DOMAIN groups : \E k \in DOMAIN groups[g] : SetDetail(g, k)
    \/ \E g \in DOMAIN groups : \E k \in DOMAIN groups[g] : SetDetailRoadmap(g, k)
    \/ Draw
    \/ SaveRaster
    \/ SavePdfBegin
    \/ BuilderSkip
    \/ BuilderRaises
    \/ BuilderReturnsNone
    \/ BuilderReturnsOther
    \/ \E nested \in NestedRoadmaps : NestedDrawRaises(nested)
    \/ \E nested \in NestedRoadmaps : BuilderReturnsRoadmap(nested)
    \/ ResolveFonts
    \/ DrawOverview
    \/ DetailPage
    \/ NestedSkip
    \/ NestedPage
    \/ SaveCanvas

Spec == Init /\ [][Next]_vars

(***************************************************************************)
(* The page routines of one roadmap: the header geometry (header.py), the  *)
(* overview / NESTED routine __draw_on_canvas and the DETAIL header        *)
(* routine __draw_pdf_header_block.  A geometry entry and a drawn          *)
(* primitive are records [elem, shape, y, h]: for a "box" y is its top     *)
(* edge in the geometry (top-down) and its bottom edge on the page         *)
(* (bottom-up); for a "point" (text baseline, line end) h is 0.  The       *)
(* divisions by 2.0 of the source are exact on the inputs below.           *)
(***************************************************************************)
PaddingYs == {10, 18}
LogoHeights == {40, 80}
TitleFontSizes == {12, 18}
\* Heights Painter.get_text_dimension measures for the title and subtitle.
TitleHeights == {24, 60}
SubtitleHeights == {14, 34}

Max(a, b) == IF a >= b THEN a ELSE b
Half(n) == n \div 2

Point(elem, y) == [elem |-> elem, shape |-> "point", y |-> y, h |-> 0]
Box(elem, y, h) == [elem |-> elem, shape |-> "box", y |-> y, h |-> h]

\* max(painter.title_font_size - 4, 10)
SubtitleFontSize(pt) == Max(pt.title_font_size - 4, 10)

\* Header._measure
TextBlockHeight(hd) ==
    hd.title_height + (IF hd.subtitle THEN hd.subtitle_height + 6 ELSE 0)
ContentHeight(hd) == Max(hd.logo_height, TextBlockHeight(hd))
MeasuredHeight(hd) == ContentHeight(hd) + hd.padding_y * 2

\* Header.draw: the header band as the Geometry Model has it (top-down).
HeaderGeometry(hd, pt) ==
    LET header_height == MeasuredHeight(hd)
        content_height == header_height - hd.padding_y * 2
        logo_y == hd.padding_y + Max(Half(content_height - hd.logo_height), 0)
        title_baseline == hd.padding_y + pt.title_font_size
        subtitle_baseline == title_baseline + SubtitleFontSize(pt) + 4
    IN  <<Box("header_band", 0, header_height)>>
        \o (IF hd.logo THEN <<Box("header_logo", logo_y, hd.logo_height)>> ELSE <<>>)
        \o <<Point("header_title", title_baseline)>>
        \o (IF hd.subtitle THEN <<Point("header_subtitle", subtitle_baseline)>> ELSE <<>>)
        \o <<Point("header_divider", header_height)>>

\* The laid-out elements below the top band: title and subtitle, one
\* timeline cell, one group with one task, a milestone and a parallel task
\* with its milestone, the marker and the footer.
Layout(off, with_marker, with_footer) ==
    << Point("title", 30 + off), Point("subtitle", 54 + off),
       Box("timeline_cell", 80 + off, 30), Point("timeline_text", 100 + off),
       Box("group_box", 120 + off, 90), Point("group_text", 165 + off),
       Box("task_box", 125 + off, 30), Point("task_text", 145 + off),
       Box("milestone", 130 + off, 20), Point("milestone_text", 128 + off),
       Box("parallel_task_box", 165 + off, 30), Point("parallel_task_text", 185 + off),
       Box("parallel_milestone", 170 + off, 20),
       Point("parallel_milestone_text", 168 + off) >>
    \o (IF with_marker
        THEN << Point("marker_label", 66 + off), Point("marker_line_from", 76 + off),
                Point("marker_line_to", 220 + off) >>
        ELSE <<>>)
    \o (IF with_footer THEN << Point("footer", 240 + off) >> ELSE <<>>)

ElementLayouts == {Layout(0, TRUE, TRUE), Layout(100, TRUE, FALSE), Layout(0, FALSE, FALSE)}

IsTopText(e) == e.elem \in {"title", "subtitle"}
IsHeaderPart(e) ==
    e.elem \in {"header_band", "header_logo", "header_title",
                "header_subtitle", "header_divider"}
BelowTopBand(e) == ~IsTopText(e)

\* __draw_on_canvas, header branch.
CanvasHeader(hd, pt, height) ==
    LET header_height == hd.measured_height
        header_top == height
        header_bottom == header_top - header_height
        logo_y == header_top - hd.padding_y - hd.logo_height
        title_baseline == to_pdf_y(height, hd.padding_y + pt.title_font_size)
        subtitle_baseline ==
            to_pdf_y(height, hd.padding_y + pt.title_font_size + SubtitleFontSize(pt) + 4)
    IN  <<Box("header_band", header_bottom, header_height)>>
        \o (IF hd.logo THEN <<Box("header_logo", logo_y, hd.logo_height)>> ELSE <<>>)
        \o <<Point("header_title", title_baseline)>>
        \o (IF hd.subtitle THEN <<Point("header_subtitle", subtitle_baseline)>> ELSE <<>>)
        \o <<Point("header_divider", header_bottom)>>

\* __draw_on_canvas: one element below the header, drawn from its fields.
CanvasElement(e, height) ==
    CASE e.elem = "marker_label" -> Point(e.elem, to_pdf_y(height, e.y + 10))
      [] e.shape = "box" -> Box(e.elem, rect_y(height, e.y, e.h), e.h)
      [] OTHER -> Point(e.elem, to_pdf_y(height, e.y))

\* __draw_on_canvas: the whole page.
OnCanvas(hd, pt, els, height) ==
    LET shown == IF hd.set THEN SelectSeq(els, BelowTopBand) ELSE els
    IN  (IF hd.set THEN CanvasHeader(hd, pt, height) ELSE <<>>)
        \o [i \in 1..Len(shown) |-> CanvasElement(shown[i], height)]

\* __draw_pdf_header_block
PdfHeaderBlock(hd, pt, height) ==
    IF ~hd.set THEN <<>>
    ELSE
    LET header_height ==
            IF hd.measured_height # 0 THEN hd.measured_height ELSE MeasuredHeight(hd)
        header_top == height
        header_bottom == header_top - header_height
        content_height == header_height - hd.padding_y * 2
        logo_y == header_bottom + hd.padding_y
                    + Max(Half(content_height - hd.logo_height), 0)
        title_baseline == header_bottom + hd.padding_y + pt.title_font_size
        subtitle_baseline == title_baseline - SubtitleFontSize(pt) - 4
    IN  <<Box("header_band", header_bottom, header_height)>>
        \o (IF hd.logo THEN <<Box("header_logo", logo_y, hd.logo_height)>> ELSE <<>>)
        \o <<Point("header_title", title_baseline)>>
        \o (IF hd.subtitle THEN <<Point("header_subtitle", subtitle_baseline)>> ELSE <<>>)
        \o <<Point("header_divider", header_bottom)>>

NothingDrawn == [overview |-> <<>>, detail |-> <<>>]

\* A roadmap that has been laid out, before set_header and before any page.
CanvasInit ==
    /\ NewRoadmap
    /\ TagIdle
    /\ ChipIdle
    /\ LayoutIdle
    /\ ExtraIdle
    /\ header = NoHeader
    /\ painter \in {[NewPainter EXCEPT !.title_font_size = s] : s \in TitleFontSizes}
    /\ elements \in ElementLayouts
    /\ self_height \in {Height, NestedHeight}
    /\ routine = "none"
    /\ primitives = NothingDrawn

\* Roadmap.set_header: the Header is built and measured.
SetHeader(padding_y, logo, logo_height, subtitle, title_height, subtitle_height) ==
    /\ routine = "none"
    /\ LET hd == [set |-> TRUE, padding_y |-> padding_y, logo |-> logo,
                  logo_height |-> logo_height, subtitle |-> subtitle,
                  title_height |-> title_height,
                  subtitle_height |-> subtitle_height, measured_height |-> 0]
       IN  /\ header' = [hd EXCEPT !.measured_height = MeasuredHeight(hd)]
           /\ painter' = [painter EXCEPT !.last_drawn_y_pos = MeasuredHeight(hd)]
    /\ UNCHANGED <<elements, self_height, routine, primitives>>
    /\ UNCHANGED not_page_vars

\* The overview page (or the NESTED page of a nested roadmap).
DrawOnCanvas ==
    /\ routine = "none"
    /\ routine' = "draw_on_canvas"
    /\ primitives' = [primitives EXCEPT
                        !.overview = OnCanvas(header, painter, elements, self_height)]
    /\ UNCHANGED <<header, painter, elements, self_height>>
    /\ UNCHANGED not_page_vars

\* The header band of a DETAIL page of the same roadmap.
DrawPdfHeaderBlock ==
    /\ routine = "draw_on_canvas"
    /\ routine' = "header_block"
    /\ primitives' = [primitives EXCEPT
                        !.detail = PdfHeaderBlock(header, painter, self_height)]
    /\ UNCHANGED <<header, painter, elements, self_height>>
    /\ UNCHANGED not_page_vars

CanvasNext ==
    \/ \E padding_y \in PaddingYs, logo \in BOOLEAN, logo_height \in LogoHeights,
          subtitle \in BOOLEAN, title_height \in TitleHeights,
          subtitle_height \in SubtitleHeights :
         SetHeader(padding_y, logo, logo_height, subtitle, title_height, subtitle_height)
    \/ DrawOnCanvas
    \/ DrawPdfHeaderBlock

CanvasSpec == CanvasInit /\ [][CanvasNext]_vars

(***************************************************************************)
(* Tag colours: set_tag_styles and _resolve_tag_colour.  A tag is a        *)
(* string, modelled as the sequence of its characters ("" is <<>>); a      *)
(* colour is a string, "" being the empty (falsy) one.                     *)
(***************************************************************************)
MaxResolves == 3
MaxStyleCalls == 2

Alpha == <<"A", "l", "p", "h", "a">>
Beta == <<"B", "e", "t", "a">>
alpha == <<"a", "l", "p", "h", "a">>
EmptyTag == <<>>
ResolvedTags == {EmptyTag, Alpha, Beta, alpha}

\* Arguments of set_tag_styles: no palette, or one with an entry whose
\* colour is empty; no default colours, or a list with an empty colour.
NoPalette == [t \in {} |-> ""]
Palettes == {NoPalette, (Alpha :> "#FF0000") @@ (Beta :> "")}
DefaultColours == {<<>>, <<"#111111", "", "#222222">>}

NonEmptyColour(colour) == colour # ""

\* set_tag_styles: the entries kept of the palette argument.
KeptPalette(palette) ==
    [t \in {u \in DOMAIN palette : u # <<>> /\ palette[u] # ""} |-> palette[t]]

\* set_tag_styles: the default sequence after the call.
NewDefaultSequence(default_colours, current) ==
    LET filtered == SelectSeq(default_colours, NonEmptyColour)
        chosen == IF default_colours # <<>> /\ filtered # <<>> THEN filtered ELSE current
    IN  IF chosen = <<>> THEN <<"#1F77B4">> ELSE chosen

\* _resolve_tag_colour with the index taken from the number of calls made.
ResolveColour_ByCalls(tag, palette, defaults, auto) ==
    IF tag = <<>> THEN [colour |-> "#2E334E", auto |-> auto]
    ELSE IF tag \in DOMAIN palette THEN [colour |-> palette[tag], auto |-> auto]
    ELSE IF tag \in DOMAIN auto THEN [colour |-> auto[tag], auto |-> auto]
    ELSE LET seq == IF defaults = <<>> THEN <<"#1F77B4">> ELSE defaults
             index == Len(resolved) % Len(seq)
         IN  [colour |-> seq[index + 1], auto |-> (tag :> seq[index + 1]) @@ auto]

\* _resolve_tag_colour without the look-up of the auto-assignment table.
ResolveColour_NoMemo(tag, palette, defaults, auto) ==
    IF tag = <<>> THEN [colour |-> "#2E334E", auto |-> auto]
    ELSE IF tag \in DOMAIN palette THEN [colour |-> palette[tag], auto |-> auto]
    ELSE LET seq == IF defaults = <<>> THEN <<"#1F77B4">> ELSE defaults
             index == Cardinality(DOMAIN auto) % Len(seq)
         IN  [colour |-> seq[index + 1], auto |-> (tag :> seq[index + 1]) @@ auto]

\* _resolve_tag_colour: the colour returned and the auto-assignment table
\* after the call.
ResolveColour(tag, palette, defaults, auto) ==
    IF tag = <<>> THEN [colour |-> "#2E334E", auto |-> auto]
    ELSE IF tag \in DOMAIN palette THEN [colour |-> palette[tag], auto |-> auto]
    ELSE IF tag \in DOMAIN auto THEN [colour |-> auto[tag], auto |-> auto]
    ELSE LET seq == IF defaults = <<>> THEN <<"#1F77B4">> ELSE defaults
             index == Cardinality(DOMAIN auto) % Len(seq)
         IN  [colour |-> seq[index + 1], auto |-> (tag :> seq[index + 1]) @@ auto]

\* A new Roadmap: the tables as __post_init__ leaves them.
TagInit ==
    /\ NewRoadmap
    /\ PageIdle
    /\ ChipIdle
    /\ LayoutIdle
    /\ ExtraIdle
    /\ TagIdle

\* Roadmap.set_tag_styles(palette, default_colours)
SetTagStyles(palette, default_colours) ==
    /\ styles_set < MaxStyleCalls
    /\ tag_palette' = KeptPalette(palette)
    /\ tag_default_sequence' = NewDefaultSequence(default_colours, tag_default_sequence)
    /\ tag_auto_palette' = NoPalette
    /\ styles_set' = styles_set + 1
    /\ UNCHANGED resolved
    /\ UNCHANGED not_tag_vars

\* Roadmap._resolve_tag_colour(tag); the call and its result are logged.
ResolveTagColour(tag) ==
    /\ Len(resolved) < MaxResolves
    /\ LET r == ResolveColour(tag, tag_palette, tag_default_sequence, tag_auto_palette)
       IN  /\ tag_auto_palette' = r.auto
           /\ resolved' = Append(resolved,
                            [tag |-> tag, colour |-> r.colour, styles |-> styles_set,
                             palette |-> tag_palette,
                             sequence |-> tag_default_sequence])
    /\ UNCHANGED <<tag_palette, tag_default_sequence, styles_set>>
    /\ UNCHANGED not_tag_vars

TagNext ==
    \/ \E palette \in Palettes, default_colours \in DefaultColours :
         SetTagStyles(palette, default_colours)
    \/ \E tag \in ResolvedTags : ResolveTagColour(tag)

TagSpec == TagInit /\ [][TagNext]_vars

(***************************************************************************)
(* Tag chips: draw_tag_chips of __save_pdf, one loop pass per step.        *)
(***************************************************************************)
MaxTags == 3

\* The call of the DETAIL page: start_x = 40, font_size = 10.
StartX == 40
StartY == 500
FontSize == 10
\* padding_x, padding_y, gap_x of draw_tag_chips.
PaddingX == 6
PaddingY == 3
GapX == 6
\* The space between two rows of chips.
RowGap == 4
\* pdf_canvas.stringWidth: the width of one character at font_size 10.
CharWidth == 6

LineHeight == FontSize + PaddingY * 2

\* Right-edge limits: narrower than any chip, exactly the right edge of
\* "Beta" placed after "Alpha", wide enough for every chip.
MaxXs == {60, 124, 400}

AlphaSpace == Alpha \o <<" ">>
Blank == <<" ">>
RawTags == {Alpha, Beta, alpha, AlphaSpace, Blank}

RECURSIVE SeqsUpTo(_, _)
SeqsUpTo(S, n) ==
    IF n = 0 THEN {<<>>}
    ELSE LET shorter == SeqsUpTo(S, n - 1)
         IN  shorter \cup {Append(q, x) : q \in {r \in shorter : Len(r) = n - 1}, x \in S}

TagLists == SeqsUpTo(RawTags, MaxTags)

\* str.strip()
RECURSIVE LStrip(_)
LStrip(s) == IF s # <<>> /\ Head(s) = " " THEN LStrip(Tail(s)) ELSE s
Strip(s) == Reverse(LStrip(Reverse(LStrip(s))))

Range(s) == {s[i] : i \in DOMAIN s}
Min(a, b) == IF a <= b THEN a ELSE b

\* "if not label or label in seen: continue" without the test of seen.
KeepLabel_NoSeen(label, seen) == label # <<>>

\* "if not label or label in seen: continue"
KeepLabel(label, seen) == ~(label = <<>> \/ label \in seen)

\* stringWidth(label) + padding_x * 2
ChipWidth(label) == CharWidth * Len(label) + PaddingX * 2

\* The wrap test without "and current_x > start_x".
StartsNewRow_AnyChip(current_x, chip_width, start_x, max_x) ==
    current_x + chip_width > max_x

\* "if current_x + chip_width > max_x and current_x > start_x"
StartsNewRow(current_x, chip_width, start_x, max_x) ==
    current_x + chip_width > max_x /\ current_x > start_x

\* The frame of a call draw_tag_chips(tags, start_x, start_y, max_x).
ChipCall(tags, max_x) ==
    [pc |-> "entry", tags |-> tags, start_x |-> StartX, start_y |-> StartY,
     max_x |-> max_x, i |-> 1, unique_labels |-> <<>>, current_x |-> 0,
     line_top |-> 0, lowest_y |-> 0, drawn |-> <<>>, result |-> 0]

\* draw_tag_chips is entered on a new Roadmap with some tags and limit.
ChipInit ==
    /\ NewRoadmap
    /\ PageIdle
    /\ TagIdle
    /\ LayoutIdle
    /\ ExtraIdle
    /\ chip \in {ChipCall(tags, max_x) : tags \in TagLists, max_x \in MaxXs}

\* "if not tags: return start_y"
ChipEnter ==
    /\ chip.pc = "entry"
    /\ chip' = IF chip.tags = <<>>
               THEN [chip EXCEPT !.pc = "done", !.result = chip.start_y]
               ELSE [chip EXCEPT !.pc = "dedup"]
    /\ UNCHANGED tag_auto_palette
    /\ UNCHANGED not_chip_vars

\* One pass of "for raw in tags".
ChipDedup ==
    /\ chip.pc = "dedup"
    /\ chip.i <= Len(chip.tags)
    /\ LET label == Strip(chip.tags[chip.i])
       IN  chip' = [chip EXCEPT
                      !.i = @ + 1,
                      !.unique_labels =
                          IF KeepLabel(label, Range(chip.unique_labels))
                          THEN Append(@, label) ELSE @]
    /\ UNCHANGED tag_auto_palette
    /\ UNCHANGED not_chip_vars

\* After the loop: "if not unique_labels: return start_y", else the locals
\* of the layout loop.
ChipBeginRows ==
    /\ chip.pc = "dedup"
    /\ chip.i > Len(chip.tags)
    /\ chip' = IF chip.unique_labels = <<>>
               THEN [chip EXCEPT !.pc = "done", !.result = chip.start_y]
               ELSE [chip EXCEPT !.pc = "place", !.i = 1,
                                 !.current_x = chip.start_x,
                                 !.line_top = chip.start_y,
                                 !.lowest_y = chip.start_y - LineHeight]
    /\ UNCHANGED tag_auto_palette
    /\ UNCHANGED not_chip_vars

\* One pass of "for label in unique_labels": colour, width, wrap, chip.
ChipPlace ==
    /\ chip.pc = "place"
    /\ chip.i <= Len(chip.unique_labels)
    /\ LET label == chip.unique_labels[chip.i]
           r == ResolveColour(label, tag_palette, tag_default_sequence, tag_auto_palette)
           chip_width == ChipWidth(label)
           wrap == StartsNewRow(chip.current_x, chip_width, chip.start_x, chip.max_x)
           current_x == IF wrap THEN chip.start_x ELSE chip.current_x
           line_top == IF wrap THEN chip.line_top - (LineHeight + RowGap)
                               ELSE chip.line_top
           chip_bottom == line_top - LineHeight
       IN  /\ tag_auto_palette' = r.auto
           /\ chip' = [chip EXCEPT
                         !.i = @ + 1,
                         !.line_top = line_top,
                         !.drawn = Append(@, [label |-> label, x |-> current_x,
                                              y |-> chip_bottom, width |-> chip_width,
                                              height |-> LineHeight,
                                              colour |-> r.colour]),
                         !.lowest_y = Min(@, chip_bottom),
                         !.current_x = current_x + chip_width + GapX]
    /\ UNCHANGED not_chip_vars

\* "return lowest_y - 10"
ChipReturn ==
    /\ chip.pc = "place"
    /\ chip.i > Len(chip.unique_labels)
    /\ chip' = [chip EXCEPT !.pc = "done", !.result = chip.lowest_y - 10]
    /\ UNCHANGED tag_auto_palette
    /\ UNCHANGED not_chip_vars

ChipNext ==
    \/ ChipEnter
    \/ ChipDedup
    \/ ChipBeginRows
    \/ ChipPlace
    \/ ChipReturn

ChipSpec == ChipInit /\ [][ChipNext]_vars

(***************************************************************************)
(* The layout of one roadmap: the setters that place an element at the     *)
(* painter's cursor (last_drawn_y_pos) and draw().  An element is NotSet   *)
(* or a record [set, y, h]; a draw call is a Box or Point as above, in the *)
(* top-down coordinates of the Drawing Surface.  roadmap.passes logs each  *)
(* draw() call: the draw calls it issued, the cursor the timeline was      *)
(* positioned from, the error it raised, the number of setter calls made   *)
(* before it and the top band it found.                                    *)
(***************************************************************************)
MaxEdits == 3
MaxDraws == 2

\* Heights the Painter measures for the timeline band, a group and the footer.
TimelineHeights == {30}
GroupHeights == {40, 90}
FooterHeights == {20}

\* A freshly constructed element of height h, not positioned yet.
Element(h) == [set |-> TRUE, y |-> 0, h |-> h]

\* <element>.set_draw_position(painter): the element goes to the cursor.
SetDrawPosition(el, pt) == [el EXCEPT !.y = pt.last_drawn_y_pos]
\* ... and the cursor moves below it.
CursorBelow(el, pt) == [pt EXCEPT !.last_drawn_y_pos = @ + el.h]

RECURSIVE SumHeights(_, _)
SumHeights(gs, n) == IF n = 0 THEN 0 ELSE gs[n].h + SumHeights(gs, n - 1)

\* The loop "for group in self.groups: group.set_draw_position(...)".
PlaceGroups(gs, pt) ==
    [i \in 1..Len(gs) |->
        SetDrawPosition(gs[i],
            [pt EXCEPT !.last_drawn_y_pos = @ + SumHeights(gs, i - 1)])]

\* The top band draw() finds: the Header, the Title/Subtitle, or none.
TopBandMode(rm) ==
    IF rm.header.set THEN "header" ELSE IF rm.title.set THEN "title" ELSE "none"

Pass(rm, calls, cursor, raised) ==
    [calls |-> calls, cursor |-> cursor, raised |-> raised, edits |-> rm.edits,
     top_band |-> TopBandMode(rm)]

DrawCall(elem, el) == Box(elem, el.y, el.h)

Edited(rm) == [rm EXCEPT !.edits = @ + 1]

LayoutInit ==
    /\ NewRoadmap
    /\ PageIdle
    /\ TagIdle
    /\ ChipIdle
    /\ ExtraIdle
    /\ roadmap \in {NewLayout(show_marker) : show_marker \in BOOLEAN}

\* Roadmap.set_header(title = <non-empty>, ...)
set_header(padding_y, logo, logo_height, subtitle, title_height, subtitle_height) ==
    /\ roadmap.edits < MaxEdits
    /\ LET hd == [set |-> TRUE, padding_y |-> padding_y, logo |-> logo,
                  logo_height |-> logo_height, subtitle |-> subtitle,
                  title_height |-> title_height,
                  subtitle_height |-> subtitle_height, measured_height |-> 0]
       IN  roadmap' = [Edited(roadmap) EXCEPT
              !.title = Element(title_height),
              !.subtitle = IF subtitle THEN Element(subtitle_height) ELSE NotSet,
              !.header = [hd EXCEPT !.measured_height = MeasuredHeight(hd)],
              !.painter.last_drawn_y_pos = MeasuredHeight(hd)]
    /\ UNCHANGED not_layout_vars

\* Roadmap.set_title(text)
set_title(title_height) ==
    /\ roadmap.edits < MaxEdits
    /\ LET title == Element(title_height)
       IN  roadmap' =
             IF roadmap.header.set
             THEN [Edited(roadmap) EXCEPT !.title = title]
             ELSE [Edited(roadmap) EXCEPT
                     !.title = SetDrawPosition(title, roadmap.painter),
                     !.painter = CursorBelow(title, roadmap.painter)]
    /\ UNCHANGED not_layout_vars

\* Roadmap.set_subtitle(text)
set_subtitle(subtitle_height) ==
    /\ roadmap.edits < MaxEdits
    /\ LET subtitle == Element(subtitle_height)
       IN  roadmap' =
             IF roadmap.header.set
             THEN [Edited(roadmap) EXCEPT !.subtitle = subtitle]
             ELSE [Edited(roadmap) EXCEPT
                     !.subtitle = SetDrawPosition(subtitle, roadmap.painter),
                     !.painter = CursorBelow(subtitle, roadmap.painter)]
    /\ UNCHANGED not_layout_vars

\* Roadmap.set_footer(text)
set_footer(footer_height) ==
    /\ roadmap.edits < MaxEdits
    /\ roadmap' = [Edited(roadmap) EXCEPT !.footer = Element(footer_height)]
    /\ UNCHANGED not_layout_vars

\* Roadmap.set_timeline(...)
set_timeline(timeline_height) ==
    /\ roadmap.edits < MaxEdits
    /\ LET timeline == Element(timeline_height)
           pt == IF roadmap.header.set
                 THEN [roadmap.painter EXCEPT
                         !.last_drawn_y_pos = roadmap.header.measured_height]
                 ELSE roadmap.painter
       IN  roadmap' = [Edited(roadmap) EXCEPT
                         !.timeline = SetDrawPosition(timeline, pt),
                         !.painter = CursorBelow(timeline, pt)]
    /\ UNCHANGED not_layout_vars

\* Roadmap.add_group(text)
add_group(group_height) ==
    /\ roadmap.edits < MaxEdits
    /\ roadmap' = [Edited(roadmap) EXCEPT !.groups = Append(@, Element(group_height))]
    /\ UNCHANGED not_layout_vars

\* draw(): painter.set_background_colour()
Background == <<Box("background", 0, Height)>>

\* draw(): the top band, Header.draw or title.draw and subtitle.draw.
TopBand(rm) ==
    IF rm.header.set THEN HeaderGeometry(rm.header, rm.painter)
    ELSE IF ~rm.title.set THEN <<>>
    ELSE <<DrawCall("title", rm.title)>>
         \o (IF rm.subtitle.set THEN <<DrawCall("subtitle", rm.subtitle)>> ELSE <<>>)

\* draw(): the painter once the top band is drawn.
PainterBelowTopBand(rm) ==
    IF rm.header.set
    THEN [rm.painter EXCEPT !.last_drawn_y_pos = MeasuredHeight(rm.header)]
    ELSE rm.painter

\* Roadmap.draw()
draw ==
    /\ Len(roadmap.passes) < MaxDraws
    /\ LET rm == roadmap
           pt0 == PainterBelowTopBand(rm)
           timeline == SetDrawPosition(rm.timeline, pt0)
           pt1 == CursorBelow(timeline, pt0)
           placed == PlaceGroups(rm.groups, pt1)
           pt2 == [pt1 EXCEPT !.last_drawn_y_pos =
                                  @ + SumHeights(rm.groups, Len(rm.groups))]
           footer == SetDrawPosition(rm.footer, pt2)
           pt3 == IF rm.footer.set THEN CursorBelow(footer, pt2) ELSE pt2
           marker_line == Box("marker", timeline.y,
                              pt2.last_drawn_y_pos - timeline.y)
           calls ==
               Background \o TopBand(rm) \o <<DrawCall("timeline", timeline)>>
               \o [i \in 1..Len(placed) |-> DrawCall("group", placed[i])]
               \o (IF rm.marker THEN <<marker_line>> ELSE <<>>)
               \o (IF rm.footer.set THEN <<DrawCall("footer", footer)>> ELSE <<>>)
       IN  IF ~rm.header.set /\ ~rm.title.set
           THEN roadmap' = [rm EXCEPT !.passes = Append(@,
                   Pass(rm, Background, rm.painter.last_drawn_y_pos,
                        "ValueError"))]
           ELSE IF ~rm.timeline.set
           THEN roadmap' = [rm EXCEPT
                   !.painter = pt0,
                   !.passes = Append(@,
                       Pass(rm, Background \o TopBand(rm), pt0.last_drawn_y_pos,
                            "ValueError"))]
           ELSE roadmap' = [rm EXCEPT
                   !.timeline = timeline,
                   !.groups = placed,
                   !.footer = IF rm.footer.set THEN footer ELSE NotSet,
                   !.painter = pt3,
                   !.passes = Append(@,
                       Pass(rm, calls, pt0.last_drawn_y_pos, "none"))]
    /\ UNCHANGED not_layout_vars

LayoutNext ==
    \/ \E padding_y \in PaddingYs, logo \in BOOLEAN, subtitle \in BOOLEAN,
          title_height \in TitleHeights :
         set_header(padding_y, logo, 80, subtitle, title_height, 14)
    \/ \E title_height \in TitleHeights : set_title(title_height)
    \/ \E subtitle_height \in SubtitleHeights : set_subtitle(subtitle_height)
    \/ \E footer_height \in FooterHeights : set_footer(footer_height)
    \/ \E timeline_height \in TimelineHeights : set_timeline(timeline_height)
    \/ \E group_height \in GroupHeights : add_group(group_height)
    \/ draw

LayoutSpec == LayoutInit /\ [][LayoutNext]_vars

(***************************************************************************)
(* Roadmap.save: the choice of the output by the file name.  A file name   *)
(* is the sequence of its characters.  save_call is [pc, filename, wrote]: *)
(* wrote is "document" when __save_pdf was entered and "raster" when the   *)
(* painter's save_surface was called.                                      *)
(***************************************************************************)
MaxStem == 2

StemChars == {"a", ".", "/"}
Endings ==
    { <<>>, <<".", "p", "d", "f">>, <<".", "P", "D", "F">>, <<".", "P", "d", "f">>,
      <<".", "p", "n", "g">>, <<".", "P", "N", "G">>, <<".", "t", "x", "t">>,
      <<"p", "d", "f">>, <<".", "p", "d", "f", ".">>, <<".", "p", "d", "f", "x">>,
      <<".", "p", "d", "f", ".", "p", "n", "g">>,
      <<".", "p", "n", "g", ".", "p", "d", "f">>, <<".", "p", "d", "f", "/">> }
Filenames == {stem \o ending : stem \in SeqsUpTo(StemChars, MaxStem), ending \in Endings}

\* str.lower on the letters in use.
LowerChar(c) ==
    CASE c = "P" -> "p" [] c = "D" -> "d" [] c = "F" -> "f"
      [] c = "N" -> "n" [] c = "G" -> "g" [] OTHER -> c
Lower(s) == [i \in DOMAIN s |-> LowerChar(s[i])]

\* Path(filename): the components between the "/"; empty ones and "." drop out.
RECURSIVE Split(_)
Split(s) ==
    IF s = <<>> THEN << <<>> >>
    ELSE LET front == Split(SubSeq(s, 1, Len(s) - 1))
             c == s[Len(s)]
         IN  IF c = "/" THEN Append(front, <<>>)
             ELSE [front EXCEPT ![Len(front)] = Append(@, c)]
IsPart(c) == c # <<>> /\ c # <<".">>
\* Path.name: the final component.
Name(filename) ==
    LET parts == SelectSeq(Split(filename), IsPart)
    IN  IF parts = <<>> THEN <<>> ELSE parts[Len(parts)]

\* str.rfind("."), 1-based, 0 when there is no dot.
RECURSIVE RFindDot(_)
RFindDot(s) ==
    IF s = <<>> THEN 0 ELSE IF s[Len(s)] = "." THEN Len(s)
    ELSE RFindDot(SubSeq(s, 1, Len(s) - 1))
\* Path.suffix
Suffix(filename) ==
    LET name == Name(filename)
        i == RFindDot(name)
    IN  IF 1 < i /\ i < Len(name) THEN SubSeq(name, i, Len(name)) ELSE <<>>

PdfSuffix == <<".", "p", "d", "f">>

\* save() comparing the suffix as written, without lower().
OutputKind_CaseSensitive(filename) ==
    IF Suffix(filename) = PdfSuffix THEN "document" ELSE "raster"

\* The branch save() takes.
OutputKind(filename) ==
    IF Lower(Suffix(filename)) = PdfSuffix THEN "document" ELSE "raster"

SaveInit ==
    /\ NewRoadmap
    /\ PageIdle /\ TagIdle /\ ChipIdle /\ LayoutIdle
    /\ fonts = Idle /\ driver = Idle /\ marker = Idle
    /\ save_call \in {[pc |-> "call", filename |-> f, wrote |-> "none"] : f \in Filenames}

\* Roadmap.save(filename)
save ==
    /\ save_call.pc = "call"
    /\ save_call' = [save_call EXCEPT !.pc = "done",
                                      !.wrote = OutputKind(save_call.filename)]
    /\ UNCHANGED <<old_vars, fonts, driver, marker>>

SaveNext == save

SaveSpec == SaveInit /\ [][SaveNext]_vars

(***************************************************************************)
(* Fonts of a document build: ensure_pdf_font, ensure_fonts_for and        *)
(* nested_ensure of __save_pdf, over the registry of reportlab's           *)
(* pdfmetrics, which belongs to the process and not to a build.  fonts is  *)
(* [registry, builds]: registry maps a registered font name to the file    *)
(* it was registered from; builds[w] is the build of worker w: its         *)
(* Roadmap's font settings (root) and those of its nested roadmap, the     *)
(* calls of ensure_fonts_for / nested_ensure still to make (queue), the    *)
(* position inside the running call (pc), the fonts map entries written    *)
(* so far (resolved) and the registerFont attempts made (attempts).        *)
(***************************************************************************)
Workers == {1, 2}

StandardFonts == {"Helvetica", "Courier", "Times-Roman"}
GoodFiles == {"a.ttf", "b.ttf"}
NoFiles == [n \in {} |-> ""]

\* Font settings of a Roadmap as __post_init__ and set_fonts leave them:
\* family or painter.title_font, the "title" entry of _component_fonts,
\* _pdf_body_font, _pdf_body_font_file, _font_files, marker.font or "none".
FontSettings(family, title, body, body_file, files, marker_font) ==
    [family |-> family, title |-> title, body |-> body, body_file |-> body_file,
     files |-> files, marker |-> marker_font]
Plain == FontSettings("Arial", "Arial", "Helvetica", "", NoFiles, "Arial")
Brand(file) ==
    FontSettings("Brand", "Brand", "Brand", "", [n \in {"Brand"} |-> file], "Brand")
BodyOnly == FontSettings("Arial", "", "Brand", "a.ttf", NoFiles, "none")
RootSettings == {Plain, Brand("a.ttf"), Brand("b.ttf"), Brand("missing.ttf"), BodyOnly}
NoNested == [family |-> "none"]
NestedSettings == {NoNested, Brand("a.ttf"), Brand("missing.ttf")}

\* dict.get(font_name, "")
FileOf(files, font_name) == IF font_name \in DOMAIN files THEN files[font_name] ELSE ""

\* ensure_fonts_for: the file handed to ensure_pdf_font for a font name.
RootFile(rm, font_name) ==
    IF FileOf(rm.files, font_name) = "" /\ font_name = rm.body
    THEN rm.body_file ELSE FileOf(rm.files, font_name)

FontCall(page, component, font_name, file) ==
    [page |-> page, component |-> component, name |-> font_name,
     file |-> IF font_name = "" THEN "" ELSE file]

\* __collect_font_names and the order in which the fonts map is resolved.
ComponentFonts(rm) ==
    << <<"body", rm.body>>, <<"title", rm.title>>, <<"timeline", rm.family>>,
       <<"group", rm.family>>, <<"task", rm.family>>, <<"milestone", rm.family>> >>
    \o (IF rm.marker = "none" THEN <<>> ELSE << <<"marker", rm.marker>> >>)

\* The calls of ensure_fonts_for for the overview and DETAIL pages.
RootCalls(rm) ==
    LET cs == ComponentFonts(rm)
    IN  [i \in 1..Len(cs) |-> FontCall("root", cs[i][1], cs[i][2], RootFile(rm, cs[i][2]))]

\* The calls of nested_ensure for the NESTED page of a nested roadmap.
NestedCalls(rm) ==
    IF rm = NoNested THEN <<>>
    ELSE LET cs == ComponentFonts(rm)
         IN  [i \in 1..Len(cs) |->
                FontCall("nested", cs[i][1], cs[i][2], FileOf(rm.files, cs[i][2]))]

\* candidate = font_name or "Helvetica"
Candidate(font_name) == IF font_name = "" THEN "Helvetica" ELSE font_name

\* The two membership tests ensure_pdf_font starts with.
Known(candidate, registry) ==
    candidate \in DOMAIN registry \/ candidate \in StandardFonts

\* pdfmetrics.registerFont(TTFont(candidate, font_file)) that succeeded.
RegisterFont(registry, candidate, file) ==
    [n \in DOMAIN registry \cup {candidate} |->
        IF n = candidate THEN file ELSE registry[n]]

\* What a resolved name renders with: the file registered under it.
Face(font, registry) == IF font \in DOMAIN registry THEN registry[font] ELSE "standard"

Resolution(font, registry, attempts) ==
    [font |-> font, face |-> Face(font, registry), registry |-> registry,
     attempts |-> attempts]

\* The try block without the fallback of its except clause.
TryRegister_NoFallback(candidate, file, registry) ==
    IF file \in GoodFiles
    THEN Resolution(candidate, RegisterFont(registry, candidate, file), <<[name |-> candidate, file |-> file]>>)
    ELSE Resolution(candidate, registry, <<[name |-> candidate, file |-> file]>>)

\* ensure_pdf_font: the try block; TTFont raises for a file it cannot load.
TryRegister(candidate, file, registry) ==
    IF file \in GoodFiles
    THEN Resolution(candidate, RegisterFont(registry, candidate, file), <<[name |-> candidate, file |-> file]>>)
    ELSE Resolution("Helvetica", registry, <<[name |-> candidate, file |-> file]>>)

\* ensure_pdf_font run without interruption.
EnsurePdfFont(font_name, file, registry) ==
    LET candidate == Candidate(font_name)
    IN  IF Known(candidate, registry) THEN Resolution(candidate, registry, <<>>)
        ELSE IF file # "" THEN TryRegister(candidate, file, registry)
        ELSE Resolution("Helvetica", registry, <<>>)

NewBuild(root, nested) ==
    [root |-> root, nested |-> nested, pc |-> "new", queue |-> <<>>,
     resolved |-> <<>>, attempts |-> <<>>]

FontInit ==
    /\ NewRoadmap
    /\ PageIdle /\ TagIdle /\ ChipIdle /\ LayoutIdle
    /\ save_call = Idle /\ driver = Idle /\ marker = Idle
    /\ \E r1 \in RootSettings, n1 \in NestedSettings, r2 \in RootSettings :
         fonts = [registry |-> NoFiles,
                  builds |-> [w \in Workers |->
                                IF w = 1 THEN NewBuild(r1, n1) ELSE NewBuild(r2, NoNested)]]

FontFrame == UNCHANGED <<old_vars, save_call, driver, marker>>

\* The fonts map entry a finished call writes, and the move to the next call.
Finish(build, call, res) ==
    LET rest == Tail(build.queue)
    IN  [build EXCEPT
           !.resolved = Append(@, [page |-> call.page, component |-> call.component,
                                   font |-> res.font, face |-> res.face]),
           !.attempts = @ \o res.attempts,
           !.queue = rest,
           !.pc = IF rest = <<>> THEN "done" ELSE "check"]

\* __save_pdf is entered: the calls this build will make.
BuildBegin(w) ==
    LET build == fonts.builds[w]
        calls == RootCalls(build.root) \o NestedCalls(build.nested)
    IN  /\ build.pc = "new"
        /\ fonts' = [fonts EXCEPT !.builds[w] =
                        [build EXCEPT !.queue = calls, !.pc = "check"]]
        /\ FontFrame

\* ensure_pdf_font up to the point where it returns or enters the try block.
EnsureCheck(w) ==
    LET build == fonts.builds[w]
        call == Head(build.queue)
        candidate == Candidate(call.name)
    IN  /\ build.pc = "check"
        /\ IF ~Known(candidate, fonts.registry) /\ call.file # ""
           THEN fonts' = [fonts EXCEPT !.builds[w].pc = "register"]
           ELSE fonts' = [fonts EXCEPT !.builds[w] =
                    Finish(build, call, EnsurePdfFont(call.name, call.file, fonts.registry))]
        /\ FontFrame

\* ensure_pdf_font: the try block.
EnsureRegister(w) ==
    LET build == fonts.builds[w]
        call == Head(build.queue)
        res == TryRegister(Candidate(call.name), call.file, fonts.registry)
    IN  /\ build.pc = "register"
        /\ fonts' = [fonts EXCEPT !.registry = res.registry,
                                  !.builds[w] = Finish(build, call, res)]
        /\ FontFrame

FontNext ==
    \/ \E w \in Workers : BuildBegin(w)
    \/ \E w \in Workers : EnsureCheck(w)
    \/ \E w \in Workers : EnsureRegister(w)

FontSpec == FontInit /\ [][FontNext]_vars

(***************************************************************************)
(* The helpers of roadmapper_example.py: timeline_mode_from_string,        *)
(* months_between and default_timeline_items.  driver is one call:         *)
(* [pc, fn, ...arguments, result].  Strings are sequences of characters;   *)
(* a TimelineMode member is written as its name.                           *)
(***************************************************************************)
TimelineModes == {"WEEKLY", "MONTHLY", "QUARTERLY", "HALF_YEARLY", "YEARLY"}

\* The keys of the mapping of timeline_mode_from_string, in lower case.
ModeNames ==
    << <<"w", "e", "e", "k", "l", "y">>, <<"m", "o", "n", "t", "h", "l", "y">>,
       <<"q", "u", "a", "r", "t", "e", "r", "l", "y">>,
       <<"h", "a", "l", "f", "_", "y", "e", "a", "r", "l", "y">>,
       <<"h", "a", "l", "f", "_", "y", "e", "a", "r">>,
       <<"y", "e", "a", "r", "l", "y">>, <<"a", "n", "n", "u", "a", "l">> >>
ModeValues ==
    <<"WEEKLY", "MONTHLY", "QUARTERLY", "HALF_YEARLY", "HALF_YEARLY", "YEARLY", "YEARLY">>

LowerLetters ==
    <<"a", "e", "f", "h", "k", "l", "m", "n", "o", "q", "r", "t", "u", "w", "x", "y">>
UpperLetters ==
    <<"A", "E", "F", "H", "K", "L", "M", "N", "O", "Q", "R", "T", "U", "W", "X", "Y">>
\* str.upper on the characters in use.
UpperChar(c) ==
    IF \E i \in DOMAIN LowerLetters : LowerLetters[i] = c
    THEN UpperLetters[CHOOSE i \in DOMAIN LowerLetters : LowerLetters[i] = c]
    ELSE c
Upper(s) == [i \in DOMAIN s |-> UpperChar(s[i])]
\* str.replace(old, new) for single characters.
Replace(s, old, new) == [i \in DOMAIN s |-> IF s[i] = old THEN new ELSE s[i]]

\* Ways of writing a name: as is, in capitals, capitalised, alternating,
\* with "-" for "_", followed by nothing, a blank or a letter.
Cased(s, how) ==
    [i \in DOMAIN s |->
        IF how = "upper" \/ (how = "capital" /\ i = 1) \/ (how = "mixed" /\ i % 2 = 0)
        THEN UpperChar(s[i]) ELSE s[i]]
ModeStrings ==
    {Cased(Replace(ModeNames[n], "_", sep), how) \o tail :
        n \in DOMAIN ModeNames, sep \in {"_", "-"},
        how \in {"lower", "upper", "capital", "mixed"},
        tail \in {<<>>, <<" ">>, <<"x">>}}
    \cup {<<>>, <<"d", "a", "i", "l", "y">>, <<"h", "a", "l", "f", "y", "e", "a", "r">>}

\* The lookup key without the replacement of "-".
LookupKey_NoReplace(value) == Upper(value)

\* lookup = value.upper().replace("-", "_")
LookupKey(value) == Replace(Upper(value), "-", "_")

UnsupportedPrefix ==
    <<"U", "n", "s", "u", "p", "p", "o", "r", "t", "e", "d", " ", "t", "i", "m",
      "e", "l", "i", "n", "e", " ", "m", "o", "d", "e", " ", "'">>
ValueError(message) == [raised |-> "ValueError", message |-> message]
Returned(mode) == [returned |-> mode]

\* timeline_mode_from_string(value)
TimelineModeFromString(value) ==
    LET lookup == LookupKey(value)
        hits == {n \in DOMAIN ModeNames : Upper(ModeNames[n]) = lookup}
    IN  IF hits # {} THEN Returned(ModeValues[CHOOSE n \in hits : TRUE])
        ELSE ValueError(UnsupportedPrefix \o value \o <<"'", ".">>)

DecimalDigits == <<"0", "1", "2", "3", "4", "5", "6", "7", "8", "9">>
DigitChar(n) == DecimalDigits[n + 1]
DigitValue(c) == CHOOSE n \in 0..9 : DecimalDigits[n + 1] = c
RECURSIVE ParseInt(_)
ParseInt(s) ==
    IF s = <<>> THEN 0
    ELSE ParseInt(SubSeq(s, 1, Len(s) - 1)) * 10 + DigitValue(s[Len(s)])

\* A date written as "%Y-%m-%d".
DateString(year, month, day) ==
    << DigitChar(year \div 1000), DigitChar((year \div 100) % 10),
       DigitChar((year \div 10) % 10), DigitChar(year % 10), "-",
       DigitChar(month \div 10), DigitChar(month % 10), "-",
       DigitChar(day \div 10), DigitChar(day % 10) >>
DateStrings == {DateString(y, m, d) : y \in 2024..2026, m \in 1..12, d \in {1, 28}}

\* datetime.strptime(s, "%Y-%m-%d")
Strptime(s) ==
    [year |-> ParseInt(SubSeq(s, 1, 4)), month |-> ParseInt(SubSeq(s, 6, 7)),
     day |-> ParseInt(SubSeq(s, 9, 10))]

\* months_between(start_str, end_str)
MonthsBetween(start_str, end_str) ==
    LET start_dt == Strptime(start_str)
        end_dt == Strptime(end_str)
        months == (end_dt.year - start_dt.year) * 12
                    + (end_dt.month - start_dt.month) + 1
    IN  IF months >= 1 THEN months ELSE 1

\* round(num / den) for num >= 0, den > 0, ties to the even neighbour.
Round(num, den) ==
    LET floor == num \div den
        twice == 2 * (num % den)
    IN  IF twice < den THEN floor
        ELSE IF twice > den THEN floor + 1
        ELSE IF floor % 2 = 0 THEN floor ELSE floor + 1

\* default_timeline_items with the quarters rounded down.
DefaultTimelineItems_Floor(start, end, mode) ==
    LET months == MonthsBetween(start, end)
    IN  IF mode = "QUARTERLY" THEN (IF months \div 3 >= 1 THEN months \div 3 ELSE 1)
        ELSE IF mode = "WEEKLY"
        THEN LET weeks == IF Round(months * 30, 7) >= 1 THEN Round(months * 30, 7) ELSE 1
             IN  IF weeks <= 26 THEN weeks ELSE 26
        ELSE LET capped == IF months <= 18 THEN months ELSE 18
             IN  IF capped >= 3 THEN capped ELSE 3

\* default_timeline_items(start, end, mode)
DefaultTimelineItems(start, end, mode) ==
    LET months == MonthsBetween(start, end)
    IN  IF mode = "QUARTERLY"
        THEN LET quarters == (months + 2) \div 3
             IN  IF quarters >= 1 THEN quarters ELSE 1
        ELSE IF mode = "WEEKLY"
        THEN LET weeks == IF Round(months * 30, 7) >= 1 THEN Round(months * 30, 7) ELSE 1
             IN  IF weeks <= 26 THEN weeks ELSE 26
        ELSE LET capped == IF months <= 18 THEN months ELSE 18
             IN  IF capped >= 3 THEN capped ELSE 3

DriverInit ==
    /\ NewRoadmap
    /\ PageIdle /\ TagIdle /\ ChipIdle /\ LayoutIdle
    /\ save_call = Idle /\ fonts = Idle /\ marker = Idle
    /\ \/ \E value \in ModeStrings :
            driver = [pc |-> "call", fn |-> "timeline_mode_from_string",
                      value |-> value]
       \/ \E start \in DateStrings, end \in DateStrings, mode \in TimelineModes :
            driver = [pc |-> "call", fn |-> "default_timeline_items",
                      start |-> start, end |-> end, mode |-> mode]

DriverFrame == UNCHANGED <<old_vars, save_call, fonts, marker>>

timeline_mode_from_string ==
    /\ driver.pc = "call"
    /\ driver.fn = "timeline_mode_from_string"
    /\ driver' = [pc |-> "done", fn |-> driver.fn, value |-> driver.value,
                  result |-> TimelineModeFromString(driver.value)]
    /\ DriverFrame

default_timeline_items ==
    /\ driver.pc = "call"
    /\ driver.fn = "default_timeline_items"
    /\ driver' = [pc |-> "done", fn |-> driver.fn, start |-> driver.start,
                  end |-> driver.end, mode |-> driver.mode,
                  result |-> DefaultTimelineItems(driver.start, driver.end, driver.mode)]
    /\ DriverFrame

DriverNext == timeline_mode_from_string \/ default_timeline_items

DriverSpec == DriverInit /\ [][DriverNext]_vars

(***************************************************************************)
(* The marker: __create_marker and set_marker.  marker is [marker, attrs,  *)
(* calls, args]: the Marker's fields, the attributes set_marker has put on *)
(* the Roadmap instance itself, the number of set_marker calls and the     *)
(* arguments of the last one.                                              *)
(***************************************************************************)
MaxMarkerCalls == 2

\* The painter's marker settings, as the docstrings name them.
PainterMarker ==
    [marker_font |-> "Arial", marker_font_size |-> 10,
     marker_font_colour |-> "Black", marker_line_colour |-> "Black"]

MarkerArgs(label_text_font, label_text_colour, label_text_size, line_colour, line_width, line_style) ==
    [label_text_font |-> label_text_font, label_text_colour |-> label_text_colour,
     label_text_size |-> label_text_size, line_colour |-> line_colour,
     line_width |-> line_width, line_style |-> line_style]
DefaultMarkerArgs == MarkerArgs("", "", 0, "", 2, "dashed")

\* The arguments after the four "if ... == ''" defaults.
Defaulted(args) ==
    [args EXCEPT
       !.label_text_font = IF @ = "" THEN PainterMarker.marker_font ELSE @,
       !.label_text_size = IF @ = 0 THEN PainterMarker.marker_font_size ELSE @,
       !.label_text_colour = IF @ = "" THEN PainterMarker.marker_font_colour ELSE @,
       !.line_colour = IF @ = "" THEN PainterMarker.marker_line_colour ELSE @]

\* __create_marker: Marker(font=..., ..., line_style=...)
CreateMarker(args) ==
    LET a == Defaulted(args)
    IN  [font |-> a.label_text_font, font_size |-> a.label_text_size,
         font_colour |-> a.label_text_colour, line_colour |-> a.line_colour,
         line_width |-> a.line_width, line_style |-> a.line_style]

NoAttrs == [n \in {} |-> ""]
SetAttr(attrs, name, value) ==
    [n \in DOMAIN attrs \cup {name} |-> IF n = name THEN value ELSE attrs[n]]

MarkerInit ==
    /\ NewRoadmap
    /\ PageIdle /\ TagIdle /\ ChipIdle /\ LayoutIdle
    /\ save_call = Idle /\ fonts = Idle /\ driver = Idle
    /\ marker = [marker |-> CreateMarker(DefaultMarkerArgs), attrs |-> NoAttrs,
                 calls |-> 0, args |-> DefaultMarkerArgs]

\* Roadmap.set_marker(...)
set_marker(args) ==
    /\ marker.calls < MaxMarkerCalls
    /\ LET a == Defaulted(args)
       IN  marker' =
             [marker |-> [marker.marker EXCEPT !.font = a.label_text_font,
                                               !.font_size = a.label_text_size],
              attrs |-> SetAttr(SetAttr(SetAttr(SetAttr(marker.attrs,
                            "font_colour", a.label_text_colour),
                            "line_colour", a.line_colour),
                            "line_width", a.line_width),
                            "line_style", a.line_style),
              calls |-> marker.calls + 1,
              args |-> args]
    /\ UNCHANGED <<old_vars, save_call, fonts, driver>>

MarkerNext ==
    \E font \in {"", "Inter"}, colour \in {"", "#FF0000"}, size \in {0, 14},
       line_colour \in {"", "#00FF00"}, line_width \in {2, 4},
       line_style \in {"dashed", "solid"} :
        set_marker(MarkerArgs(font, colour, size, line_colour, line_width, line_style))

MarkerSpec == MarkerInit /\ [][MarkerNext]_vars

(***************************************************************************)
(* Observations on a finished document.                                    *)
(***************************************************************************)
\* save() has returned after writing the document.
Done == pc = "ready" /\ output = "document"

\* The builder loop of the running build is over.
BuildersRan == pc \in {"fonts", "overview", "detail", "nested", "save"} \/ Done

PageKind(page) == IF Len(page.content) = 1 THEN page.content[1].kind ELSE "mixed"
PageTask(page) == page.content[1].task

IsOverviewPage(page) == PageKind(page) = "overview"
IsDetailPage(page) == PageKind(page) = "detail"
IsNestedPage(page) == PageKind(page) = "nested"

DetailPagesOf(seq) ==
    {p \in DOMAIN pages : IsDetailPage(pages[p]) /\ PageTask(pages[p]) = seq}
NestedPagesOf(seq) ==
    {p \in DOMAIN pages : IsNestedPage(pages[p]) /\ PageTask(pages[p]) = seq}

\* The calls of the running build in which the builder of task seq returned
\* a Roadmap that was laid out.
RoadmapCalls(seq) ==
    {i \in DOMAIN invoked : invoked[i].task = seq /\ invoked[i].result = "roadmap"}
ReturnedRoadmap(seq) == RoadmapCalls(seq) # {}
TheCall(seq) == invoked[CHOOSE i \in RoadmapCalls(seq) : TRUE]

\* The tasks of the roadmap and their place <<group, position>> in it.
Places == {gk \in (DOMAIN groups) \X (1..MaxTasks) : gk[2] \in DOMAIN groups[gk[1]]}
AllTasks == {groups[gk[1]][gk[2]] : gk \in Places}
DetailSeqs == {t.seq : t \in {u \in AllTasks : u.has_detail}}
TaskOf(seq) == CHOOSE t \in AllTasks : t.seq = seq
Place(seq) == CHOOSE gk \in Places : groups[gk[1]][gk[2]].seq = seq
Before(s1, s2) ==
    \/ Place(s1)[1] < Place(s2)[1]
    \/ Place(s1)[1] = Place(s2)[1] /\ Place(s1)[2] < Place(s2)[2]

(***************************************************************************)
(* C1.  Page order of DETAIL and NESTED pages.                             *)
(***************************************************************************)
\* C1 as stated: in every finished document the NESTED page of a task is
\* the page right after the DETAIL page of the same task.
C1_NestedImmediatelyFollowsDetail ==
    Done =>
      \A q \in DOMAIN pages :
        IsNestedPage(pages[q]) =>
          /\ q > 1
          /\ IsDetailPage(pages[q - 1])
          /\ PageTask(pages[q - 1]) = PageTask(pages[q])

\* C1 as amended: every NESTED page lies after the DETAIL pages of all
\* detail tasks (so after its own task's DETAIL page, not necessarily
\* right after it), and the NESTED pages follow one another in the order
\* of their tasks' DETAIL pages.
C1_NestedPagesAfterAllDetailPages ==
    Done =>
      /\ \A p, q \in DOMAIN pages :
           IsDetailPage(pages[p]) /\ IsNestedPage(pages[q]) => p < q
      /\ \A q \in DOMAIN pages :
           IsNestedPage(pages[q]) => DetailPagesOf(PageTask(pages[q])) # {}
      /\ \A q1, q2 \in DOMAIN pages :
           IsNestedPage(pages[q1]) /\ IsNestedPage(pages[q2]) /\ q1 < q2 =>
             \A p1 \in DetailPagesOf(PageTask(pages[q1])) :
               \A p2 \in DetailPagesOf(PageTask(pages[q2])) : p1 < p2

\* A finished document with two DETAIL pages and two NESTED pages.
C1_Witness ==
    /\ Done
    /\ Cardinality({p \in DOMAIN pages : IsDetailPage(pages[p])}) = 2
    /\ Cardinality({p \in DOMAIN pages : IsNestedPage(pages[p])}) = 2

(***************************************************************************)
(* C2.  Page count and traversal order.                                    *)
(***************************************************************************)
\* C2: a finished document has 1 + D + N pages, D the detail tasks and N
\* those whose builder returned a Roadmap: page 1 is the overview, pages
\* 2..D+1 are the DETAIL pages, one per detail task, in the traversal order
\* of the groups, and each nested Roadmap has exactly one NESTED page;
\* detail tasks inside a nested Roadmap add no page.
C2_PageCountAndOrder ==
    Done =>
      LET D == Cardinality(DetailSeqs)
          N == Cardinality({s \in DetailSeqs : ReturnedRoadmap(s)})
      IN  /\ Len(pages) = 1 + D + N
          /\ IsOverviewPage(pages[1])
          /\ \A p \in 2..(D + 1) : IsDetailPage(pages[p])
          /\ \A s \in DetailSeqs : Cardinality(DetailPagesOf(s)) = 1
          /\ \A p, q \in 2..(D + 1) :
               p < q => Before(PageTask(pages[p]), PageTask(pages[q]))
          /\ \A s \in DetailSeqs :
               Cardinality(NestedPagesOf(s)) = IF ReturnedRoadmap(s) THEN 1 ELSE 0

\* A finished document of two detail tasks created in the opposite order of
\* their groups, one with a nested Roadmap that has a detail task inside.
C2_Witness ==
    /\ Done
    /\ Len(pages) = 4
    /\ PageTask(pages[2]) = 2
    /\ PageTask(pages[3]) = 1
    /\ \E i \in DOMAIN invoked : invoked[i].result = "roadmap" /\ invoked[i].details = 1

(***************************************************************************)
(* C3.  Page breaks.                                                       *)
(***************************************************************************)
\* C3: once the overview is drawn a page break has been emitted if and
\* only if there is a detail task; in a finished document every page holds
\* the output of exactly one page routine (no page is blank, no two pages
\* are merged) and the page breaks number one less than the pages.
C3_PageBreaks ==
    /\ (pc \in {"detail", "nested", "save"} \/ Done) =>
         ((breaks >= 1) <=> (detail_tasks # <<>>))
    /\ Done =>
         /\ breaks = Len(pages) - 1
         /\ \A p \in DOMAIN pages : Len(pages[p].content) = 1
         /\ (detail_tasks = <<>> => breaks = 0)

\* A finished document of four pages: overview, two DETAIL, one NESTED.
C3_Witness ==
    /\ Done
    /\ Len(pages) = 4
    /\ breaks = 3
    /\ IsNestedPage(pages[4])

(***************************************************************************)
(* C4.  Bookmarks.                                                         *)
(***************************************************************************)
\* The name prescribed for a page.
PrescribedName(page) ==
    CASE IsOverviewPage(page) -> <<"roadmap_overview">>
      [] IsDetailPage(page) -> Identifier(TaskOf(PageTask(page)))
      [] IsNestedPage(page) -> Identifier(TaskOf(PageTask(page))) \o <<"_roadmap">>
      [] OTHER -> <<>>

\* C4: every bookmarkPage call is made on the page that carries the name:
\* "roadmap_overview" on the overview, t.identifier on the DETAIL page of t,
\* t.identifier + "_roadmap" on the NESTED page of t; and every page of a
\* finished document has its bookmark.
C4_BookmarksOnOwnPage ==
    /\ \A b \in DOMAIN bookmarks : bookmarks[b].page <= Len(pages) + 1
    /\ Done =>
         /\ \A b \in DOMAIN bookmarks :
              /\ bookmarks[b].page \in DOMAIN pages
              /\ bookmarks[b].name = PrescribedName(pages[bookmarks[b].page])
         /\ \A p \in DOMAIN pages :
              Cardinality({b \in DOMAIN bookmarks : bookmarks[b].page = p}) = 1

\* A finished document with an overview, a DETAIL and a NESTED page, each
\* bookmarked.
C4_Witness ==
    /\ Done
    /\ Len(bookmarks) >= 3
    /\ \E b \in DOMAIN bookmarks :
         /\ bookmarks[b].page \in DOMAIN pages
         /\ IsNestedPage(pages[bookmarks[b].page])
         /\ bookmarks[b].name = <<"task_", "1", "_roadmap">>

(***************************************************************************)
(* C5.  Overview links.                                                    *)
(***************************************************************************)
LinksTo(page, name) == {l \in DOMAIN page.links : page.links[l].dest = name}
BookmarksNamed(name) == {b \in DOMAIN bookmarks : bookmarks[b].name = name}
ShownBoxes(task) ==
    {i \in DOMAIN task.boxes : task.boxes[i][3] > 0 /\ task.boxes[i][4] > 0}

\* C5 as stated: every detail task has exactly one DETAIL bookmark and
\* exactly one clickable region on the overview page that targets it,
\* whatever the task's boxes.
C5_OneLinkPerDetailTask ==
    Done =>
      \A s \in DetailSeqs :
        /\ Cardinality(BookmarksNamed(Identifier(TaskOf(s)))) = 1
        /\ Cardinality(LinksTo(pages[1], Identifier(TaskOf(s)))) = 1

\* C5 as amended: every detail task has exactly one DETAIL bookmark, and
\* the overview page has one clickable region targeting it per box of the
\* task that has positive width and positive height.
C5_OneLinkPerShownBox ==
    Done =>
      \A s \in DetailSeqs :
        /\ Cardinality(BookmarksNamed(Identifier(TaskOf(s)))) = 1
        /\ Cardinality(LinksTo(pages[1], Identifier(TaskOf(s))))
             = Cardinality(ShownBoxes(TaskOf(s)))

\* A finished document whose overview has two regions for one detail task
\* (three boxes, one of width 0) and one region for another.
C5_Witness ==
    /\ Done
    /\ \E s \in DetailSeqs :
         /\ Len(TaskOf(s).boxes) = 3
         /\ Cardinality(LinksTo(pages[1], Identifier(TaskOf(s)))) = 2
    /\ \E s \in DetailSeqs :
         /\ Len(TaskOf(s).boxes) = 1
         /\ Cardinality(LinksTo(pages[1], Identifier(TaskOf(s)))) = 1

(***************************************************************************)
(* C6.  Outline nesting.                                                   *)
(***************************************************************************)
\* C6: the outline is root -> detail task -> nested roadmap: the overview
\* entry is at level 0, every detail entry is a child of it at level 1, and
\* the level-2 entry of a nested roadmap is a child of the entry of the
\* task that owns it.
C6_NestedEntryUnderOwnTask ==
    Done =>
      /\ outline[1].level = 0
      /\ outline[1].key = <<"roadmap_overview">>
      /\ \A e \in DOMAIN outline :
           /\ outline[e].level = 1 => outline[e].parent = 1
           /\ outline[e].level = 2 =>
                /\ outline[e].parent \in DOMAIN outline
                /\ outline[e].key = outline[outline[e].parent].key \o <<"_roadmap">>

(***************************************************************************)
(* C7.  Navigation buttons of a DETAIL page.                               *)
(***************************************************************************)
ButtonsWith(page, text) == {b \in DOMAIN page.buttons : page.buttons[b].text = text}

\* C7: every DETAIL page has the "Back to overview" button, and has the
\* "Open detailed roadmap" button if and only if the builder of the page's
\* own task returned a Roadmap during this build.
C7_DetailButtons ==
    Done =>
      \A p \in DOMAIN pages :
        IsDetailPage(pages[p]) =>
          /\ Cardinality(ButtonsWith(pages[p], "Back to overview")) = 1
          /\ (ButtonsWith(pages[p], "Open detailed roadmap") # {})
               <=> ReturnedRoadmap(PageTask(pages[p]))

\* A finished document with a DETAIL page that has the second button and
\* a DETAIL page of a task whose builder returned None, which has not.
C7_Witness ==
    /\ Done
    /\ \E p \in DOMAIN pages :
         /\ IsDetailPage(pages[p])
         /\ ButtonsWith(pages[p], "Open detailed roadmap") # {}
    /\ \E p \in DOMAIN pages :
         /\ IsDetailPage(pages[p])
         /\ TaskOf(PageTask(pages[p])).builder
         /\ ButtonsWith(pages[p], "Open detailed roadmap") = {}

C9_PageSizes ==
    Done =>
      \A p \in DOMAIN pages :
        /\ IsNestedPage(pages[p]) =>
             /\ ReturnedRoadmap(PageTask(pages[p]))
             /\ pages[p].width = TheCall(PageTask(pages[p])).width
             /\ pages[p].height = TheCall(PageTask(pages[p])).height
             /\ pages[p].content[1].flip = TheCall(PageTask(pages[p])).height
        /\ ~IsNestedPage(pages[p]) =>
             /\ pages[p].width = Width
             /\ pages[p].height = Height
             /\ \A c \in DOMAIN pages[p].content : pages[p].content[c].flip = Height

\* A finished document in which a DETAIL page of the parent's size is
\* followed by a NESTED page of another size, itself followed by a NESTED
\* page of the parent's size.
C9_Witness ==
    /\ Done
    /\ Len(pages) = 5
    /\ IsDetailPage(pages[3]) /\ pages[3].width = Width
    /\ IsNestedPage(pages[4]) /\ pages[4].width = NestedWidth
    /\ pages[4].height = NestedHeight
    /\ IsNestedPage(pages[5]) /\ pages[5].width = Width

(***************************************************************************)
(* C10.  The builder is called lazily and once.                            *)
(***************************************************************************)
CallsOf(seq) == {i \in DOMAIN invoked : invoked[i].task = seq}

\* The nested roadmap instance a page shows: 0 when it shows none.
ExpectedInst(seq) == IF ReturnedRoadmap(seq) THEN TheCall(seq).inst ELSE 0

\* C10: no builder is called while the roadmap is defined, by draw() or
\* by a raster save (a call is only ever made by the builder loop of a
\* document build); once the builder loop is over every detail task with
\* a builder has been called exactly once and no other task at all; and
\* the Roadmap that call returned is the one stored under the task's
\* identifier, outlined on its DETAIL page and drawn on its NESTED page.
C10_BuilderCalledOnceLazily ==
    /\ [](pc = "define" => invoked = <<>>)
    /\ [][Len(invoked') > Len(invoked) => pc = "builders"]_vars
    /\ [](BuildersRan =>
            \A i \in DOMAIN detail_tasks :
              Cardinality(CallsOf(detail_tasks[i].seq))
                = IF detail_tasks[i].builder THEN 1 ELSE 0)
    /\ [](Done =>
            /\ \A key \in DOMAIN nested_artifacts :
                 nested_artifacts[key].inst
                   = ExpectedInst(nested_artifacts[key].task)
            /\ \A p \in DOMAIN pages :
                 /\ IsDetailPage(pages[p]) \/ IsNestedPage(pages[p]) =>
                      pages[p].content[1].inst = ExpectedInst(PageTask(pages[p]))
                 /\ IsNestedPage(pages[p]) => pages[p].content[1].inst # 0)

\* A finished document after a layout pass and a build in which two
\* builders were called, the second one's Roadmap being drawn on a NESTED
\* page.
C10_Witness ==
    /\ Done
    /\ Len(invoked) = 2
    /\ \E p \in DOMAIN pages :
         IsNestedPage(pages[p]) /\ pages[p].content[1].inst = 2

(***************************************************************************)
(* C11.  A failed nested-roadmap build.                                    *)
(***************************************************************************)
\* The calls of the running build that made the nested-roadmap build fail.
FailedCalls ==
    {i \in DOMAIN invoked :
       invoked[i].result \in {"raises", "not_roadmap", "draw_raises"}}

\* Nothing of the document has been produced: no page, no content, link or
\* button on the page being drawn, no page break, no file written.
NothingEmitted ==
    /\ pages = <<>>
    /\ cur = BlankPage
    /\ breaks = 0
    /\ output # "document"

\* C11: when the nested-roadmap build of a detail task has failed (its
\* builder raised, returned something that is not a Roadmap, or the nested
\* layout pass raised), the build has ended with an error that names that
\* task's label, nothing has been emitted and the document is not saved.
C11_FailureNamesTaskNothingEmitted ==
    \A i \in FailedCalls :
      /\ NothingEmitted
      /\ output = "none" =>
           /\ pc = "ready"
           /\ error.type # "none"
           /\ error.label = invoked[i].task

(***************************************************************************)
(* C12.  The top-down to bottom-up transform of __draw_on_canvas.          *)
(***************************************************************************)
\* The Geometry Model of the roadmap being drawn: the header band as
\* Header.draw places it, and the fields of the other elements.
GeometryModel ==
    (IF header.set THEN HeaderGeometry(header, painter) ELSE <<>>) \o elements

GeometryOf(elem) ==
    GeometryModel[CHOOSE i \in DOMAIN GeometryModel : GeometryModel[i].elem = elem]

\* C12: every primitive __draw_on_canvas has drawn sits at
\* canvas_height - y of its Geometry Model value (a point, a baseline, a
\* line end), or has its bottom edge at canvas_height - (y + height) (a
\* box), with no other offset.
C12_EveryPrimitiveFlipped ==
    routine # "none" =>
      \A i \in DOMAIN primitives.overview :
        LET p == primitives.overview[i]
            g == GeometryOf(p.elem)
        IN  /\ p.shape = g.shape
            /\ p.h = g.h
            /\ p.y = IF g.shape = "box" THEN self_height - (g.y + g.h)
                                        ELSE self_height - g.y

(***************************************************************************)
(* C13.  The header band of a DETAIL page.                                 *)
(***************************************************************************)
\* C13: the header band __draw_pdf_header_block draws on a DETAIL page is
\* the header band __draw_on_canvas drew on the overview page of the same
\* roadmap: same band, logo position, title and subtitle baselines and
\* divider.
C13_DetailHeaderEqualsOverviewHeader ==
    routine = "header_block" =>
      primitives.detail = SelectSeq(primitives.overview, IsHeaderPart)

(***************************************************************************)
(* C14.  Clickable regions of the overview.                                *)
(***************************************************************************)
\* The rectangle a pdf_canvas.rect(x, y, width, height) call paints, as
\* <<left, bottom, right, top>>.
Painted(r) == <<r.x, r.y, r.x + r.width, r.y + r.height>>

\* The rectangles painted on a page for the boxes of task seq that have
\* positive width and height, in drawing order.
IsShownRect(r) == r.width > 0 /\ r.height > 0
ShownRectsOf(page, seq) ==
    LET Mine(r) == r.task = seq /\ IsShownRect(r)
        mine == SelectSeq(page.rects, Mine)
    IN  [i \in 1..Len(mine) |-> Painted(mine[i])]

LinkRectsTo(page, name) ==
    LET Mine(l) == l.dest = name
        mine == SelectSeq(page.links, Mine)
    IN  [i \in 1..Len(mine) |-> mine[i].rect]

\* C14: on the overview page of a finished document, the clickable regions
\* of a detail task are exactly the rectangles painted for its boxes of
\* positive width and height (same left, bottom, right and top, one region
\* per box), and their destination is the bookmark of the task's DETAIL
\* page.
C14_LinkRectIsDrawnBox ==
    Done =>
      \A s \in DetailSeqs :
        /\ LinkRectsTo(pages[1], Identifier(TaskOf(s))) = ShownRectsOf(pages[1], s)
        /\ \A b \in BookmarksNamed(Identifier(TaskOf(s))) :
             /\ bookmarks[b].page \in DOMAIN pages
             /\ IsDetailPage(pages[bookmarks[b].page])
             /\ PageTask(pages[bookmarks[b].page]) = s
        /\ BookmarksNamed(Identifier(TaskOf(s))) # {}

\* A finished document whose overview paints three boxes for a detail task,
\* one of width 0, and has a region on each of the other two; a task
\* without detail content is painted as well and has no region.
C14_Witness ==
    /\ Done
    /\ \E s \in DetailSeqs :
         /\ Len(SelectSeq(pages[1].rects, LAMBDA r : r.task = s)) = 3
         /\ Len(LinkRectsTo(pages[1], Identifier(TaskOf(s)))) = 2
         /\ LinkRectsTo(pages[1], Identifier(TaskOf(s)))[2] = <<300, 450, 500, 480>>
    /\ \E i \in DOMAIN pages[1].rects : pages[1].rects[i].task \notin DetailSeqs

(***************************************************************************)
(* C15.  Tag chips: one chip per label.                                    *)
(***************************************************************************)
ChipDone == chip.pc = "done"

ChipLabels == [j \in 1..Len(chip.drawn) |-> chip.drawn[j].label]

\* The members of a sequence in the order of their first occurrence.
RECURSIVE FirstOccurrences(_)
FirstOccurrences(s) ==
    IF s = <<>> THEN <<>>
    ELSE LET front == FirstOccurrences(SubSeq(s, 1, Len(s) - 1))
             last == s[Len(s)]
         IN  IF last \in Range(front) THEN front ELSE Append(front, last)

IsNonEmpty(label) == label # <<>>
Stripped(tags) == [j \in 1..Len(tags) |-> Strip(tags[j])]

\* C15 as stated: the chips drawn are the distinct labels of the input,
\* one each, in the order of their first occurrence, two labels being the
\* same only if they are equal character for character.
C15_OneChipPerDistinctLabel ==
    ChipDone => ChipLabels = FirstOccurrences(chip.tags)

\* C15 as amended: the chips drawn are the distinct non-empty labels of
\* the input after leading and trailing whitespace is stripped, one each,
\* in the order of their first occurrence; stripped labels are compared
\* character for character (case-sensitive).
C15_OneChipPerDistinctStrippedLabel ==
    ChipDone =>
      ChipLabels = FirstOccurrences(SelectSeq(Stripped(chip.tags), IsNonEmpty))

\* The call with tags ["Alpha", "Beta", "Alpha"] has returned after drawing
\* the two chips "Alpha", "Beta".
C15_Witness ==
    /\ ChipDone
    /\ chip.tags = <<Alpha, Beta, Alpha>>
    /\ ChipLabels = <<Alpha, Beta>>

(***************************************************************************)
(* C16.  Tag chips: rows.                                                  *)
(***************************************************************************)
\* The chips on the row of chip j.
RowOf(j) == {k \in DOMAIN chip.drawn : chip.drawn[k].y = chip.drawn[j].y}
RightEdge(c) == c.x + c.width

\* C16: the first chip is placed at (start_x, first row) whatever its
\* width; a later chip starts a new row, at start_x one row lower, if and
\* only if its right edge at the position after the previous chip would
\* lie beyond max_x, and otherwise follows the previous chip on the same
\* row after the fixed gap.  Hence no row is left empty, a chip that is
\* not first on its row ends at or before max_x, and a chip wider than
\* the available width is alone on its row, at start_x.
C16_RowsOfChips ==
    ChipDone =>
      LET d == chip.drawn
          rows == {d[j].y : j \in DOMAIN d}
      IN  /\ d # <<>> =>
               /\ d[1].x = chip.start_x
               /\ d[1].y = chip.start_y - LineHeight
          /\ \A j \in 2..Len(d) :
               LET at == RightEdge(d[j - 1]) + GapX
               IN  IF at + d[j].width > chip.max_x
                   THEN /\ d[j].x = chip.start_x
                        /\ d[j].y = d[j - 1].y - (LineHeight + RowGap)
                   ELSE /\ d[j].x = at
                        /\ d[j].y = d[j - 1].y
          /\ rows = {chip.start_y - LineHeight - k * (LineHeight + RowGap) :
                       k \in 0..(Cardinality(rows) - 1)}
          /\ \A j \in DOMAIN d :
               /\ d[j].x # chip.start_x => RightEdge(d[j]) <= chip.max_x
               /\ chip.start_x + d[j].width > chip.max_x =>
                    d[j].x = chip.start_x /\ RowOf(j) = {j}

\* The call has returned after placing two chips on the first row and
\* wrapping the third to a second row.
C16_Witness ==
    /\ ChipDone
    /\ Len(chip.drawn) = 3
    /\ chip.drawn[2].y = chip.drawn[1].y
    /\ chip.drawn[2].x = RightEdge(chip.drawn[1]) + GapX
    /\ RightEdge(chip.drawn[2]) = chip.max_x
    /\ chip.drawn[3].y < chip.drawn[2].y
    /\ chip.drawn[3].x = chip.start_x

(***************************************************************************)
(* C17.  A tag keeps its colour.                                           *)
(***************************************************************************)
\* C17 as stated: two resolutions of the same tag on one Roadmap return
\* the same colour, whatever was done to the Roadmap in between.
C17_SameTagSameColour ==
    \A i, j \in DOMAIN resolved :
      resolved[i].tag = resolved[j].tag => resolved[i].colour = resolved[j].colour

\* C17 as amended: two resolutions of the same tag on one Roadmap return
\* the same colour if set_tag_styles has not been called between them,
\* whatever other tags were resolved in between and in whatever order.
C17_SameTagSameColourUntilRestyled ==
    \A i, j \in DOMAIN resolved :
      resolved[i].tag = resolved[j].tag /\ resolved[i].styles = resolved[j].styles
        => resolved[i].colour = resolved[j].colour

\* A tag with no palette entry was resolved, then another tag, then the
\* first one again, with no set_tag_styles call in between.
C17_Witness ==
    /\ Len(resolved) = 3
    /\ resolved[1].tag = resolved[3].tag
    /\ resolved[1].tag # resolved[2].tag
    /\ resolved[1].tag \notin DOMAIN resolved[1].palette
    /\ resolved[1].tag # <<>>
    /\ resolved[2].colour # resolved[3].colour
    /\ resolved[1].styles = resolved[3].styles

(***************************************************************************)
(* C18.  Explicit palette and cyclic default sequence.                     *)
(***************************************************************************)
\* A logged call of a non-empty tag that had no palette entry.
AutoCall(e) == e.tag # <<>> /\ e.tag \notin DOMAIN e.palette

\* The first call that resolved the tag of call i under the styles of i.
FirstCall(i) ==
    CHOOSE f \in 1..i :
      /\ resolved[f].tag = resolved[i].tag
      /\ resolved[f].styles = resolved[i].styles
      /\ \A g \in 1..(f - 1) :
           ~(resolved[g].tag = resolved[i].tag /\ resolved[g].styles = resolved[i].styles)

\* The distinct auto-assigned tags resolved before call i under its styles.
AutoTagsBefore(i) ==
    {resolved[g].tag : g \in {h \in 1..(i - 1) :
        AutoCall(resolved[h]) /\ resolved[h].styles = resolved[i].styles}}

\* C18: a tag with an entry in the explicit palette resolves to that entry
\* and the call leaves the auto-assignment table as it was; a non-empty
\* tag without an entry that was the k-th distinct such tag resolved under
\* the styles in force (k from 0) resolves to default_sequence[k mod n].
C18_ExplicitFirstThenCyclic ==
    /\ [](\A i \in DOMAIN resolved :
            LET e == resolved[i]
                k == Cardinality(AutoTagsBefore(FirstCall(i)))
            IN  /\ e.tag \in DOMAIN e.palette /\ e.tag # <<>> =>
                     e.colour = e.palette[e.tag]
                /\ AutoCall(e) =>
                     e.colour = e.sequence[(k % Len(e.sequence)) + 1])
    /\ [][Len(resolved') > Len(resolved)
            /\ resolved'[Len(resolved')].tag \in DOMAIN tag_palette
          => tag_auto_palette' = tag_auto_palette]_vars

\* With "Alpha" in the explicit palette and a default sequence of two
\* colours: "Alpha" resolved to its entry, then two other tags resolved to
\* the first and the second default colour.
C18_Witness ==
    /\ Len(resolved) = 3
    /\ resolved[1].tag = Alpha /\ resolved[1].colour = "#FF0000"
    /\ resolved[2].tag = Beta /\ resolved[2].colour = "#111111"
    /\ resolved[3].tag = alpha /\ resolved[3].colour = "#222222"
(***************************************************************************)
(* C19: draw() twice in a row.                                             *)
(***************************************************************************)
\* draw() passes i and i + 1 were made with no setter call in between.
InARow(i) == roadmap.passes[i].edits = roadmap.passes[i + 1].edits

\* C19: two draw() calls in a row on an unchanged Roadmap issue the same
\* sequence of draw calls with the same geometry, and position the timeline,
\* groups and footer from the same cursor, with a Header and with a
\* Title/Subtitle as the top band.
C19_SecondPassRepeatsFirst ==
    \A i \in 1..(Len(roadmap.passes) - 1) :
        InARow(i) =>
            /\ roadmap.passes[i + 1].calls = roadmap.passes[i].calls
            /\ roadmap.passes[i + 1].cursor = roadmap.passes[i].cursor

(***************************************************************************)
(* C20: draw() without the required state.                                 *)
(***************************************************************************)
\* The pass draw() made last, on the roadmap as it is now.
LastPass == roadmap.passes[Len(roadmap.passes)]
JustDrawn == roadmap.passes # <<>> /\ LastPass.edits = roadmap.edits

NoTopBand == ~roadmap.header.set /\ ~roadmap.title.set
NoTimeline == ~roadmap.timeline.set

\* C20: draw() on a Roadmap with neither Header nor Title, or with no
\* Timeline, raises ValueError, and raises it before any call that draws on
\* the Drawing Surface (background, header, title, subtitle).
C20_ConfigurationErrorBeforeDrawing ==
    JustDrawn /\ (NoTopBand \/ NoTimeline) =>
        /\ LastPass.raised = "ValueError"
        /\ LastPass.calls = <<>>
(***************************************************************************)
(* C21: the vertical cursor.                                               *)
(***************************************************************************)
Cursor(rm) == rm.painter.last_drawn_y_pos

\* C21: painter.last_drawn_y_pos starts at 0 and no operation of the
\* Roadmap (a setter or draw()) leaves it smaller than it found it, in any
\* order of the operations.
C21_CursorNeverDecreases ==
    /\ [](roadmap.passes = <<>> /\ roadmap.edits = 0 => Cursor(roadmap) = 0)
    /\ [][Cursor(roadmap') >= Cursor(roadmap)]_vars
(***************************************************************************)
(* C22: save() and the file extension.                                     *)
(***************************************************************************)
Saved == save_call.pc = "done"
\* The extension of the file name, in lower case.
Extension == Lower(Suffix(save_call.filename))
RasterExtensions == { <<".", "p", "n", "g">> }
RecognizedExtensions == RasterExtensions \cup {PdfSuffix}

\* C22 as stated: a raster extension produces the raster image, any other
\* recognized extension the interactive document, and the raster surface is
\* written only for raster extensions.
C22_OutputByExtension ==
    Saved =>
        /\ Extension \in RasterExtensions => save_call.wrote = "raster"
        /\ Extension \in RecognizedExtensions \ RasterExtensions =>
               save_call.wrote = "document"
        /\ save_call.wrote = "raster" => Extension \in RasterExtensions

\* The final component of the file name ends in ".pdf", in any letter case,
\* after at least one other character.
EndsInPdf(filename) ==
    LET name == Name(filename)
        n == Len(name)
    IN  /\ n > 4
        /\ Lower(SubSeq(name, n - 3, n)) = PdfSuffix

\* C22, amended: a file name whose final component ends in ".pdf" (any
\* letter case, after a non-empty stem) produces the interactive document;
\* every other file name is handed to the raster surface.
C22_DocumentIffPdfExtension ==
    Saved =>
        /\ EndsInPdf(save_call.filename) => save_call.wrote = "document"
        /\ ~EndsInPdf(save_call.filename) => save_call.wrote = "raster"

\* "a.txt" was saved through the raster surface, "a.PDF" as a document.
C22_Witness ==
    /\ Saved
    /\ \/ save_call.filename = <<"a", ".", "t", "x", "t">> /\ save_call.wrote = "raster"
       \/ save_call.filename = <<"a", ".", "P", "D", "F">> /\ save_call.wrote = "document"
(***************************************************************************)
(* C23, C24, C25: font resolution.                                         *)
(***************************************************************************)
FontsRunning == fonts # Idle
Build(w) == fonts.builds[w]
BuildDone(w) == Build(w).pc = "done"
Renderable(font) == font \in StandardFonts \/ font \in DOMAIN fonts.registry
FailedAttempts(w) ==
    {i \in DOMAIN Build(w).attempts : Build(w).attempts[i].file \notin GoodFiles}

\* C23: every font name a build has put into a fonts map is a registered
\* font or a standard font ("Helvetica" when nothing else is available),
\* whatever the name and the file were, also when registration failed.
C23_ResolvedFontsRenderable ==
    FontsRunning =>
        \A w \in Workers : \A i \in DOMAIN Build(w).resolved :
            Renderable(Build(w).resolved[i].font)

\* A build has finished after a registration that failed and after a call
\* with an empty font name; both entries fell back to "Helvetica".
C23_Witness ==
    /\ FontsRunning
    /\ \E w \in Workers :
         /\ BuildDone(w)
         /\ \/ /\ FailedAttempts(w) # {}
               /\ \E i \in DOMAIN Build(w).resolved :
                    /\ Build(w).resolved[i].font = "Helvetica"
                    /\ Build(w).root = Brand("missing.ttf")
                    /\ Build(w).resolved[i].component = "task"
            \/ /\ Build(w).root = BodyOnly
               /\ Build(w).resolved[2].font = "Helvetica"

\* C24: within one build, registerFont is attempted at most once for each
\* font name, whether the attempt succeeds or fails.
C24_OneAttemptPerFontName ==
    FontsRunning =>
        \A w \in Workers : \A i, j \in DOMAIN Build(w).attempts :
            Build(w).attempts[i].name = Build(w).attempts[j].name => i = j

\* The fonts map entries a build writes when it runs alone, from an empty
\* registry.
RECURSIVE AloneFrom(_, _)
AloneFrom(calls, registry) ==
    IF calls = <<>> THEN <<>>
    ELSE LET call == Head(calls)
             res == EnsurePdfFont(call.name, call.file, registry)
         IN  << [page |-> call.page, component |-> call.component,
                 font |-> res.font, face |-> res.face] >>
             \o AloneFrom(Tail(calls), res.registry)
Alone(build) == AloneFrom(RootCalls(build.root) \o NestedCalls(build.nested), NoFiles)

\* C25: a build that shares the process with another build resolves every
\* font to the same name and the same font file as when it runs alone.
C25_ConcurrentBuildsIndependent ==
    FontsRunning =>
        \A w \in Workers : BuildDone(w) => Build(w).resolved = Alone(Build(w))
(***************************************************************************)
(* C26, C27: the driver's helpers.                                         *)
(***************************************************************************)
ModeCallDone == driver.pc = "done" /\ driver.fn = "timeline_mode_from_string"
ItemsCallDone == driver.pc = "done" /\ driver.fn = "default_timeline_items"

\* c is the letter k in either case, or "-" standing for "_".
SameLetter(c, k) == c = k \/ c = UpperChar(k) \/ (k = "_" /\ c = "-")
Spells(value, n) ==
    /\ Len(value) = Len(ModeNames[n])
    /\ \A i \in DOMAIN value : SameLetter(value[i], ModeNames[n][i])
Contains(text, part) ==
    \E i \in 0..(Len(text) - Len(part)) : SubSeq(text, i + 1, i + Len(part)) = part
Quoted(s) == <<"'">> \o s \o <<"'">>

\* C26: a string that spells WEEKLY, MONTHLY, QUARTERLY, HALF_YEARLY,
\* HALF_YEAR, YEARLY or ANNUAL in any letter case, "-" accepted for "_",
\* gives the matching mode; every other string raises a ValueError whose
\* message contains the string exactly as given.
C26_ModeOrErrorNamingValue ==
    ModeCallDone =>
        IF \E n \in DOMAIN ModeNames : Spells(driver.value, n)
        THEN \A n \in DOMAIN ModeNames :
                Spells(driver.value, n) => driver.result = Returned(ModeValues[n])
        ELSE /\ "raised" \in DOMAIN driver.result
             /\ driver.result.raised = "ValueError"
             /\ Contains(driver.result.message, Quoted(driver.value))

\* "Half-Year" gave HALF_YEARLY, or "Weekly " was refused by name.
C26_Witness ==
    /\ ModeCallDone
    /\ \/ /\ driver.value = <<"H", "a", "l", "f", "-", "y", "e", "a", "r">>
          /\ driver.result = Returned("HALF_YEARLY")
       \/ /\ driver.value = <<"W", "e", "e", "k", "l", "y", " ">>
          /\ "raised" \in DOMAIN driver.result

\* The calendar months from the month of start to the month of end, counted.
CalendarMonths(start, end) ==
    LET s == Strptime(start)
        e == Strptime(end)
    IN  Cardinality({ym \in (s.year..e.year) \X (1..12) :
                        /\ ym[1] * 12 + ym[2] >= s.year * 12 + s.month
                        /\ ym[1] * 12 + ym[2] <= e.year * 12 + e.month})
CountedMonths == IF CalendarMonths(driver.start, driver.end) >= 1
                 THEN CalendarMonths(driver.start, driver.end) ELSE 1

\* C27: with months the inclusive count of calendar months from start to
\* end (1 when end precedes start), QUARTERLY gives ceil(months / 3), WEEKLY
\* a value in 1..26, every other mode months clamped to 3..18; always >= 1.
C27_DefaultTimelineItems ==
    ItemsCallDone =>
        /\ driver.result >= 1
        /\ driver.mode = "QUARTERLY" =>
              /\ 3 * driver.result >= CountedMonths
              /\ 3 * (driver.result - 1) < CountedMonths
        /\ driver.mode = "WEEKLY" => driver.result \in 1..26
        /\ driver.mode \notin {"QUARTERLY", "WEEKLY"} =>
              driver.result = (IF CountedMonths < 3 THEN 3
                               ELSE IF CountedMonths > 18 THEN 18 ELSE CountedMonths)

\* Four months in quarters, or an end that precedes the start.
C27_Witness ==
    /\ ItemsCallDone
    /\ \/ /\ driver.mode = "QUARTERLY"
          /\ driver.start = DateString(2024, 11, 28)
          /\ driver.end = DateString(2025, 2, 1)
          /\ driver.result = 2
       \/ /\ driver.mode = "WEEKLY"
          /\ driver.start = DateString(2025, 6, 1)
          /\ driver.end = DateString(2024, 6, 1)
          /\ driver.result = 4
(***************************************************************************)
(* C28: set_marker.                                                        *)
(***************************************************************************)
\* C28: after set_marker the Marker's font, font size, font colour, line
\* colour, line width and line style are the given values (the painter's
\* defaults for values left empty), and the Roadmap itself has gained or
\* changed no attribute.
C28_SetMarkerConfiguresMarker ==
    marker # Idle /\ marker.calls > 0 =>
        /\ marker.marker = CreateMarker(marker.args)
        /\ marker.attrs = NoAttrs
(***************************************************************************)
(* C29.  Link and button destinations.                                     *)
(***************************************************************************)
BookmarkNames == {bookmarks[b].name : b \in DOMAIN bookmarks}
Destinations(page) ==
    {page.links[i].dest : i \in DOMAIN page.links}
        \cup {page.buttons[b].dest : b \in DOMAIN page.buttons}
\* The pages on which a name is bookmarked.
BookmarkedOn(name) ==
    {bookmarks[b].page : b \in {c \in DOMAIN bookmarks : bookmarks[c].name = name}}
ButtonDests(page, text) == {page.buttons[b].dest : b \in ButtonsWith(page, text)}

\* C29: in a finished document every destination of a task link or of a
\* navigation button is bookmarked on a page of the document; on a NESTED
\* page "Back to detail" leads to the bookmark on the DETAIL page of the
\* task that owns the nested roadmap, "Back to overview" to the bookmark on
\* the overview page.
C29_DestinationsBookmarked ==
    Done =>
      \A p \in DOMAIN pages :
        /\ \A dest \in Destinations(pages[p]) :
             /\ dest \in BookmarkNames
             /\ BookmarkedOn(dest) \subseteq DOMAIN pages
        /\ IsNestedPage(pages[p]) =>
             /\ ButtonDests(pages[p], "Back to detail")
                    = {Identifier(TaskOf(PageTask(pages[p])))}
             /\ \A dest \in ButtonDests(pages[p], "Back to detail") :
                    BookmarkedOn(dest) \subseteq DetailPagesOf(PageTask(pages[p]))
             /\ ButtonDests(pages[p], "Back to overview") = {RoadmapOverview}
             /\ \A q \in BookmarkedOn(RoadmapOverview) : IsOverviewPage(pages[q])

\* A finished document with task links, a DETAIL page with both buttons
\* and a NESTED page.
C29_Witness ==
    /\ Done
    /\ \E p \in DOMAIN pages : pages[p].links # <<>>
    /\ \E p \in DOMAIN pages :
         IsDetailPage(pages[p]) /\ ButtonsWith(pages[p], "Open detailed roadmap") # {}
    /\ \E p \in DOMAIN pages : IsNestedPage(pages[p])

(***************************************************************************)
(* C30.  The layout pass of a nested roadmap.                              *)
(***************************************************************************)
\* The calls of the running build whose builder returned a Roadmap.
NestedRoadmapCalls ==
    {i \in DOMAIN invoked : invoked[i].result \in {"roadmap", "draw_raises"}}
\* The nested roadmap instances outlined or rendered on a page.
ShownInstances(page) ==
    {page.content[c].inst : c \in {d \in DOMAIN page.content :
        page.content[d].kind \in {"detail", "nested"} /\ page.content[d].inst # 0}}
InBuild == pc \notin {"define", "ready"}

\* C30: draw() of each nested Roadmap has run exactly once, when the
\* document had no page yet, so every nested roadmap outlined on a DETAIL
\* page or rendered on a NESTED page has been laid out; and no step of
\* the build lays out the parent Roadmap.
C30_NestedLaidOutOnceBeforePages ==
    /\ [](/\ \A i \in NestedRoadmapCalls :
                invoked[i].draws = 1 /\ invoked[i].pages_before = 0
          /\ \A page \in {pages[p] : p \in DOMAIN pages} \cup {cur} :
                \A inst \in ShownInstances(page) :
                    inst \in NestedRoadmapCalls /\ invoked[inst].draws = 1)
    /\ [][InBuild \/ pc' \notin {"define", "ready"} => groups' = groups]_vars

\* A finished document with a NESTED page, built after the parent roadmap
\* was laid out by draw().
C30_Witness ==
    /\ Done
    /\ \E p \in DOMAIN pages : IsNestedPage(pages[p]) /\ ShownInstances(pages[p]) # {}
    /\ \E p \in DOMAIN pages : IsDetailPage(pages[p]) /\ ShownInstances(pages[p]) # {}
====
